---- MODULE Spec2Model ----
(***************************************************************************)
(* Model of the email ingestion service: the Redis-backed EmailQueue       *)
(* (core/queue_manager.py), the batch worker pool (core/batch_processor.py)*)
(* the session manager (core/session_manager.py), the webhook handler's    *)
(* fallback (core/webhook_service.py), the poller and its pagination       *)
(* cursor (core/polling_service.py), the rate limiter                      *)
(* (concurrent_storage/redis_manager.py), the api_retry decorator          *)
(* (utils/api_retry.py) and the outbound forwarder                         *)
(* (core/ms4_batch_sender.py).  Every Redis command (or MULTI/EXEC         *)
(* pipeline, or Lua script) is one atomic step; a handler that issues      *)
(* several commands is a sequence of steps of one process.                 *)
(***************************************************************************)
EXTENDS Integers, Sequences, FiniteSets, TLC

\* ------------------------------------------------------------------ bounds
MaxIds == 2               \* message ids are 1..MaxIds
MaxBatchLen == 2          \* longest argument list of enqueue_batch
MaxCalls == 2             \* calls each producer makes
MaxTicks == 1             \* clock advances
MaxRounds == 2            \* dequeue_batch calls each consumer makes
MaxReclaims == 1          \* requeue_timeouts calls each reclaimer makes
DequeueSize == 2          \* batch_size the queue clients pass to dequeue_batch
BatchSize == 2            \* batch_size of the BatchEmailProcessor
MaxWorkers == 2           \* max_workers of its thread pool
MaxSessionCalls == 2      \* session manager calls each actor makes
MaxExtraErrors == 1       \* webhook handler errors counted beyond max_errors
MaxPolls == 2             \* poll_once calls
MaxPages == 3             \* pages the provider's listing has at most
MaxDenied == 1            \* denied reservations counted beyond the threshold
MaxChecks == 3            \* check_rate_limit calls each caller makes
MaxLocks == 2              \* acquire_lock calls each caller makes
MaxPosts == 3              \* requests sent to POST /webhook/notifications
MaxWaits == 1              \* intervals the polling loop sleeps through
MaxRegs == 2               \* register_processed_email calls each thread makes
MaxStarts == 3             \* start_session calls made on the orchestrators
MAX_POLL_PAGES == 2       \* utils/config.py, line 75 (environment, default 10)
GRAPH_API_RATE_LIMIT_THRESHOLD == 2   \* utils/config.py, line 43 (default 100)
GRAPH_API_MAX_RETRIES == 2            \* utils/config.py, line 48 (default 5)

\* ------------------------------------------------------------------ constants
VISIBILITY_TIMEOUT == 300 \* seconds an id stays hidden after a dequeue
RECLAIM_EVERY == 10       \* requeue_timeouts runs every so many batches
MAX_ERRORS == 5           \* WebhookService.max_errors
SEND_MAX_RETRIES == 5     \* _send_batch's max_retries

Ids == 1..MaxIds
None == -1                \* zscore of an absent member / Python None
NoData == "none"          \* GET of an absent email:data:{id} key
Callers == {"poller", "webhook"}
Consumers == {"w1", "w2"}
Reclaimers == {"r1", "r2"}
MaxTime == MaxTicks * VISIBILITY_TIMEOUT
AllConsumers == Consumers \cup {"bp"}     \* "bp" is the BatchEmailProcessor
AllReclaimers == Reclaimers \cup {"bp"}

\* Sequences over S of length lo..hi
SeqsOf(S, lo, hi) == UNION {[1..n -> S] : n \in lo..hi}

\* The set of elements of a sequence
Range(s) == {s[i] : i \in 1..Len(s)}

\* ------------------------------------------------------------------ state
VARIABLES
    processed,   \* email:processed      (set of ids)
    queue,       \* queue:emails         (sorted set: id -> score, None if absent)
    processing,  \* queue:processing     (sorted set: id -> deadline, None if absent)
    data,        \* email:data:{id}      (id -> payload, NoData if absent)
    failed,      \* queue:failed         (sequence of failure records, by score)
    now,         \* wall clock, seconds
    caller,      \* producers calling enqueue / enqueue_batch
    consumer,    \* consumers calling dequeue_batch and the mark operations
    reclaimer,   \* callers of requeue_timeouts
    pool,        \* BatchEmailProcessor: loop position, futures, stats
    session,     \* session:current      (hash: field -> value)
    history,     \* sessions:history     (list, newest first)
    actor,       \* callers of the session manager
    hook,        \* WebhookService: handler position and error_count
    poller,      \* PollingService: active, mode
    cursor,      \* polling:pagination_cursor (a URL, None if absent)
    mail,        \* the provider's listing of unread messages, page by page
    poll,        \* the poll_once call in progress and what the last one did
    rate,        \* ratelimit:{key}      (counter n, 0 if absent; ttl: it expires)
    outbound,    \* ms4:outbound         (list of staged payloads)
    api,         \* observer: how each component last called the mail provider
    limiter,     \* callers of check_rate_limit
    retry,       \* a call through the api_retry decorator
    send,        \* MS4BatchSender._send_batch
    lock,        \* lock:{name}          (value, and the callers of acquire_lock)
    fault,       \* observer: the store errors that a handler caught and dropped
    orch,        \* EmailIngestionOrchestrator: running flag, position in start_session
    reg,         \* pending set, metric and lifetime counter; register_processed_email calls
    web,         \* POST /webhook/notifications requests and their responses
    loop,        \* PollingService: mode, active flag, the polling loop's thread
    hist         \* observer: what a specification records of calls and returns

store == <<processed, queue, processing, data, failed>>
queueVars == <<processed, queue, processing, data, failed, now, caller, consumer, reclaimer>>
sessionVars == <<session, history, actor>>
pollVars == <<cursor, mail, poll, rate>>
auxVars == <<outbound, limiter, retry, send>>
lateVars == <<reg, web, loop>>
ctlVars == <<lock, fault, orch, lateVars>>
services == <<hook, poller, pollVars, auxVars, api, ctlVars>>
vars == <<processed, queue, processing, data, failed, now, caller, consumer,
          reclaimer, pool, session, history, actor, hook, poller, cursor, mail,
          poll, rate, outbound, api, limiter, retry, send, lock, fault, orch,
          reg, web, loop, hist>>

\* ------------------------------------------------------------------ sorted sets
\* Members of a sorted set
Members(z) == {i \in Ids : z[i] # None}

\* ZADD key {member: score}
ZAdd(z, id, score) == [z EXCEPT ![id] = score]

\* ZREM key members...
ZRem(z, S) == [i \in Ids |-> IF i \in S THEN None ELSE z[i]]

\* Rank order of ZRANGE: by score, ties by member
Before(z, a, b) == z[a] < z[b] \/ (z[a] = z[b] /\ a < b)

\* ZRANGE key 0 count-1 : the count lowest members, as a sequence in rank order
RECURSIVE ZRange(_, _)
ZRange(z, count) ==
    IF count <= 0 \/ Members(z) = {} THEN <<>>
    ELSE LET m == CHOOSE a \in Members(z) : \A b \in Members(z) \ {a} : Before(z, a, b)
         IN  <<m>> \o ZRange(ZRem(z, {m}), count - 1)

\* ZRANGEBYSCORE key 0 max
ZRangeByScore(z, max) == {i \in Members(z) : z[i] >= 0 /\ z[i] <= max}

\* datetime.now().timestamp() as a main-queue score, in milliseconds so that
\* the batch tiebreaker i * 0.001 stays an integer
QScore(t, i) == t * 1000 + i

EmptyZ == [i \in Ids |-> None]

\* ------------------------------------------------------------------ placeholders
\* stop is the stop event; mid says that the loop had passed its while test
\* when the event was set; atstop is the main queue at that moment
IdlePool == [fut |-> [i \in Ids |-> "none"], pids |-> <<>>, success |-> 0,
             failed |-> 0, batches |-> 0, bus |-> {}, stop |-> FALSE, mid |-> FALSE,
             atstop |-> {}]
\* The hash session:current.  Redis keeps every value as a string
\* (set_session_state converts with str()); a field the hash lacks is Absent
Fields == {"session_id", "state", "webhook_enabled", "webhook_errors", "timestamp",
           "polling_errors", "processed_count", "pending_count",
           "end_time", "termination_reason", "fallback_reason", "failure_reason",
           "error_details", "error_context", "error_timestamp"}
Absent == "(nil)"
NoSession == [f \in Fields |-> Absent]
Actors == {"orch", "api"}              \* threads that call the session manager
AllActors == Actors \cup {"hook"}      \* "hook" is the webhook handler
\* WebhookService.__init__, lines 41-42; calls is the number of session manager
\* calls the handler had made when it last decided to activate the fallback
IdleHook == [pc |-> "idle", error_count |-> 0, calls |-> 0]
\* PollingService.__init__, lines 34-36
IdlePoller == [active |-> FALSE, mode |-> "manual"]
\* A URL of the provider is the number of the listing page it returns: the
\* fresh unread query returns page 1, the next-link of page k returns page k + 1
\* (None is the absent cursor key and the absent next-link)
EmptyMailbox == << <<>> >>
\* The listings the provider may hold: up to MaxPages pages of at most one message
Mailboxes == SeqsOf({<<>>} \cup {<<i>> : i \in Ids}, 1, MaxPages)
\* PollingService.RATE_LIMIT_KEY / WebhookService.RATE_LIMIT_KEY
RateKeys == {"graph_api_polling", "graph_api_webhook"}
\* A counter key that is absent (never set, or expired) counts 0
NoRate == [n |-> 0, ttl |-> FALSE]
\* The components whose calls to the mail provider the model follows one by
\* one (the webhook handler's calls lie inside Notify_ok and Notify_error)
Components == {"poller", "worker"}
RateCallers == {"c1", "c2"}
\* check_rate_limit's locals and return value; k is the position of the call
\* among the calls of its window
IdleLimiter == [pc |-> "idle", count |-> 0, allowed |-> FALSE, k |-> 0, calls |-> 0]
\* The callers, and the calls / the allowed calls the current window has seen
NoChecks == [call |-> [c \in RateCallers |-> IdleLimiter], win |-> 0, ok |-> 0]
\* The lock key (its value is the holder's token, "none" if absent) and the
\* callers of acquire_lock: position, the value the release read, calls made
LockCallers == {"a", "b"}
\* EmailIngestionOrchestrator.__init__, lines 25-29, and the observer's notes on
\* the start_session call in progress: the state it read, the session manager
\* calls it made, the services it started
IdleOrch == [pc |-> "idle", running |-> FALSE, was |-> FALSE, pre |-> "none",
             webhook |-> FALSE, scheduled |-> TRUE, recovers |-> 0, terminates |-> 0,
             starts |-> 0, cleaned |-> FALSE, refused |-> FALSE, svc |-> {},
             polls |-> 0, ret |-> "none", runs |-> 0]
\* register_processed_email: nothing pending, counters at zero, no call made;
\* trues and falses count the calls that returned True and False for an id
Registrars == {"r1", "r2"}
NoRegs == [pending |-> {}, metric |-> 0, total |-> 0,
           call |-> [c \in Registrars |-> [pc |-> "idle", id |-> None, calls |-> 0,
                                           n |-> 0]],
           trues |-> [i \in Ids |-> 0], falses |-> [i \in Ids |-> 0]]
\* The webhook application: no request in progress, none answered
IdleWeb == [pc |-> "idle", body |-> <<>>, healthy |-> TRUE, result |-> "none",
            log |-> <<>>]
\* PollingService.__init__, line 36: no polling thread
IdleLoop == [pc |-> "none", waits |-> 0]
NoLock == [val |-> "none",
           call |-> [c \in LockCallers |-> [pc |-> "idle", stored |-> "none", calls |-> 0]]]
\* api_retry's wrapper: the outcomes the wrapped function will have, attempt
\* by attempt, the loop counter, the invocations made, the way it ended
Outcome(kind, status, retry_after) ==
    [kind |-> kind, status |-> status, retry_after |-> retry_after]
Nothing == Outcome("none", 0, "none")
IdleRetry == [outs |-> <<>>, pc |-> "idle", retries |-> 0, invoked |-> 0,
              last |-> Nothing, result |-> "none", exc |-> Nothing]
\* _send_batch: the answers the persistence API will give, POST by POST
IdleSend == [resps |-> <<>>, pc |-> "idle", attempt |-> 0, posts |-> 0, exc |-> "none"]
\* poll_once's locals, and what the last call did: first is the URL of its
\* first request, stop is why the page loop ended, ret its status
IdlePoll == [pc |-> "idle", resume |-> None, url |-> None, first |-> None,
             pages |-> 0, msgs |-> <<>>, next |-> None, stop |-> "none",
             attempts |-> 0, ret |-> "none", has_more |-> FALSE, polls |-> 0,
             calls |-> 0]
IdleActor == [pc |-> "idle", op |-> "none", webhook |-> FALSE, cur |-> NoSession,
              pre |-> NoSession, post |-> NoSession, ret |-> "none", calls |-> 0,
              conc |-> {}]

\* ------------------------------------------------------------------ observer
\* The part of the store the enqueue contract speaks of
StoreNow == [processed |-> processed, queue |-> queue, processing |-> processing,
             data |-> data]
StoreNext == [processed |-> processed', queue |-> queue', processing |-> processing',
              data |-> data']
EmptyStore == [processed |-> {}, queue |-> EmptyZ, processing |-> EmptyZ,
               data |-> [i \in Ids |-> NoData]]
NoHist == [mode |-> "off", who |-> "none", returned |-> FALSE, pre |-> EmptyStore, post |-> EmptyStore,
           delivered |-> <<>>]

\* A producer begins a call in this step / returns from one
Begins(c) == caller'[c].calls # caller[c].calls
Returns(c) == caller'[c].pc = "idle" /\ (caller[c].pc # "idle" \/ Begins(c))

\* A consumer's dequeue_batch returns in this step
Delivers(w) == consumer[w].pc \in {"d_pop", "d_get", "d_requeue"}
               /\ consumer'[w].pc = consumer[w].resume

\* Records the store at the first command and at the return of a producer's call
ObserveCalls ==
    IF \E c \in Callers : Begins(c) \/ Returns(c)
    THEN LET c == CHOOSE d \in Callers : Begins(d) \/ Returns(d)
         IN  hist' = [hist EXCEPT !.who = c,
                                  !.returned = Returns(c),
                                  !.pre = IF Begins(c) THEN StoreNow ELSE @,
                                  !.post = IF Returns(c) THEN StoreNext
                                           ELSE IF Begins(c) THEN StoreNow ELSE @]
    ELSE UNCHANGED hist

\* Records every id a dequeue_batch call returns, with the consumer
ObserveDeliveries ==
    IF \E w \in AllConsumers : Delivers(w)
    THEN LET w == CHOOSE u \in AllConsumers : Delivers(u)
             b == consumer'[w].batch
         IN  hist' = [hist EXCEPT !.delivered =
                        @ \o [i \in 1..Len(b) |-> <<w, b[i]>>]]
    ELSE UNCHANGED hist

\* In a specification of calls made one at a time, a process moves only while
\* every other process is outside a call
QuietBut(p) ==
    /\ \A c \in Callers \ {p} : caller[c].pc = "idle"
    /\ \A w \in AllConsumers \ {p} : consumer[w].pc = "idle"
    /\ \A r \in AllReclaimers \ {p} : reclaimer[r].pc = "idle"
    /\ \A a \in AllActors \ {p} : actor[a].pc = "idle"
    /\ p # "hook" => hook.pc = "idle"
Sched(p) == hist.mode = "calls" => QuietBut(p)

\* The observer is switched on by the initial state of a specification
Observe ==
    CASE hist.mode = "calls" -> ObserveCalls
      [] hist.mode = "deliveries" -> ObserveDeliveries
      [] OTHER -> UNCHANGED hist


\* ------------------------------------------------------------------ producers
IdleCaller == [pc |-> "idle", op |-> "none", ids |-> <<>>, proc |-> <<>>,
               ins |-> EmptyZ, ret |-> <<>>, done |-> FALSE, free |-> FALSE,
               pri |-> None, calls |-> 0, conc |-> {}]

\* The id is in none of processed set, main queue, in-flight set
Free(id) == id \notin processed /\ queue[id] = None /\ processing[id] = None

\* The other producers that are inside a call
MidCall(c) == {d \in Callers \ {c} : caller[d].pc # "idle"}

\* The call returns r; its locals die
Return(c, r) == [caller[c] EXCEPT !.pc = "idle", !.ret = r, !.done = TRUE,
                                  !.proc = <<>>, !.ins = EmptyZ, !.pri = None]

\* enqueue, lines 39-41: SISMEMBER email:processed
Enqueue_sismember(c, id) ==
    /\ Sched(c)
    /\ caller[c].pc = "idle"
    /\ caller[c].calls < MaxCalls
    /\ LET begun == [caller[c] EXCEPT !.op = "enqueue", !.ids = <<id>>,
                       !.done = FALSE, !.ret = <<>>, !.free = Free(id),
                       !.calls = @ + 1, !.conc = MidCall(c)]
       IN  caller' = [caller EXCEPT ![c] =
                IF id \in processed
                THEN [begun EXCEPT !.pc = "idle", !.done = TRUE, !.proc = <<>>,
                                   !.ins = EmptyZ, !.pri = None]
                ELSE [begun EXCEPT !.pc = "e_zscore"]]
    /\ UNCHANGED <<store, now, consumer, reclaimer, pool, sessionVars, services>>
    /\ Observe

\* enqueue, lines 43-49: ZSCORE queue:emails, then the default priority
Enqueue_zscore(c) ==
    /\ Sched(c)
    /\ caller[c].pc = "e_zscore"
    /\ LET id == caller[c].ids[1]
       IN  caller' = [caller EXCEPT ![c] =
                IF queue[id] # None
                THEN Return(c, <<>>)
                ELSE [caller[c] EXCEPT !.pc = "e_setex", !.pri = QScore(now, 0)]]
    /\ UNCHANGED <<store, now, consumer, reclaimer, pool, sessionVars, services>>
    /\ Observe

\* enqueue, lines 51-57: SETEX email:data:{id}
Enqueue_setex(c) ==
    /\ Sched(c)
    /\ caller[c].pc = "e_setex"
    /\ data' = [data EXCEPT ![caller[c].ids[1]] = c]
    /\ caller' = [caller EXCEPT ![c].pc = "e_zadd"]
    /\ UNCHANGED <<processed, queue, processing, failed, now, consumer, reclaimer,
                   pool, sessionVars, services>>
    /\ Observe

\* enqueue, lines 59-62: ZADD queue:emails, return the id
Enqueue_zadd(c) ==
    /\ Sched(c)
    /\ caller[c].pc = "e_zadd"
    /\ queue' = ZAdd(queue, caller[c].ids[1], caller[c].pri)
    /\ caller' = [caller EXCEPT ![c] = Return(c, caller[c].ids)]
    /\ UNCHANGED <<processed, processing, data, failed, now, consumer, reclaimer,
                   pool, sessionVars, services>>
    /\ Observe

\* _batch_check_processed: SMISMEMBER email:processed
BatchCheckProcessed(ids) == [i \in 1..Len(ids) |-> ids[i] \in processed]

\* enqueue_batch, lines 76-78
EnqueueBatch_smismember(c, ids) ==
    /\ Sched(c)
    /\ caller[c].pc = "idle"
    /\ caller[c].calls < MaxCalls
    /\ caller' = [caller EXCEPT ![c] =
            [@ EXCEPT !.op = "enqueue_batch", !.ids = ids, !.done = FALSE,
                      !.ret = <<>>, !.free = \A i \in 1..Len(ids) : Free(ids[i]),
                      !.calls = @ + 1, !.conc = MidCall(c),
                      !.proc = BatchCheckProcessed(ids), !.pc = "b_zscore"]]
    /\ UNCHANGED <<store, now, consumer, reclaimer, pool, sessionVars, services>>
    /\ Observe

\* enqueue_batch, lines 90-100: the ids that pass both checks, in input order
RECURSIVE EnqueuedIds(_, _, _)
EnqueuedIds(ids, proc, inq) ==
    IF ids = <<>> THEN <<>>
    ELSE (IF proc[1] \/ inq[1] THEN <<>> ELSE <<ids[1]>>)
         \o EnqueuedIds(Tail(ids), Tail(proc), Tail(inq))

\* enqueue_batch, lines 87-98: the dict to_insert; a later entry of the same id
\* overwrites the priority of an earlier one
ToInsert(ids, proc, inq, t) ==
    [id \in Ids |->
        LET hits == {i \in 1..Len(ids) : ids[i] = id /\ ~proc[i] /\ ~inq[i]}
        IN  IF hits = {} THEN None
            ELSE QScore(t, (CHOOSE i \in hits : \A j \in hits : j <= i) - 1)]

\* enqueue_batch, lines 80-103: pipeline of ZSCOREs, then the selection
EnqueueBatch_zscore(c) ==
    /\ Sched(c)
    /\ caller[c].pc = "b_zscore"
    /\ LET ids == caller[c].ids
           inq == [i \in 1..Len(ids) |-> queue[ids[i]] # None]
           ins == ToInsert(ids, caller[c].proc, inq, now)
       IN  caller' = [caller EXCEPT ![c] =
                IF Members(ins) = {}
                THEN Return(c, <<>>)
                ELSE [caller[c] EXCEPT !.pc = "b_insert", !.ins = ins,
                        !.ret = EnqueuedIds(ids, caller[c].proc, inq)]]
    /\ UNCHANGED <<store, now, consumer, reclaimer, pool, sessionVars, services>>
    /\ Observe

\* enqueue_batch, lines 105-121: one pipeline with the SETEXs and the ZADD
EnqueueBatch_insert(c) ==
    /\ Sched(c)
    /\ caller[c].pc = "b_insert"
    /\ LET ins == caller[c].ins
       IN  /\ data' = [i \in Ids |-> IF ins[i] # None THEN c ELSE data[i]]
           /\ queue' = [i \in Ids |-> IF ins[i] # None THEN ins[i] ELSE queue[i]]
    /\ caller' = [caller EXCEPT ![c] = Return(c, caller[c].ret)]
    /\ UNCHANGED <<processed, processing, failed, now, consumer, reclaimer,
                   pool, sessionVars, services>>
    /\ Observe

\* ------------------------------------------------------------------ consumers
IdleConsumer == [pc |-> "idle", resume |-> "idle", ids |-> <<>>, batch |-> <<>>,
                 miss |-> <<>>, held |-> {}, rounds |-> 0,
                 n |-> 0, mset |-> {}, fid |-> 0, ferr |-> "none"]

\* The subsequence of ids that satisfy Keep, in order
RECURSIVE SelectIds(_, _)
SelectIds(ids, keep) ==
    IF ids = <<>> THEN <<>>
    ELSE (IF ids[1] \in keep THEN <<ids[1]>> ELSE <<>>) \o SelectIds(Tail(ids), keep)

\* A pop whose script forgets the ZREM: the ids stay in the main queue
AtomicPop_NoZrem(q, p, count, t) ==
    LET ids == ZRange(q, count)
    IN  [ids |-> ids,
         queue |-> q,
         processing |-> [i \in Ids |-> IF i \in Range(ids)
                                        THEN t + VISIBILITY_TIMEOUT ELSE p[i]]]

\* _atomic_pop, the Lua script of lines 167-192, run by Redis as one step:
\* ZRANGE 0 count-1, ZREM from the queue, ZADD to processing with timestamp+300
AtomicPop(q, p, count, t) ==
    LET ids == ZRange(q, count)
    IN  [ids |-> ids,
         queue |-> ZRem(q, Range(ids)),
         processing |-> [i \in Ids |-> IF i \in Range(ids)
                                        THEN t + VISIBILITY_TIMEOUT ELSE p[i]]]

\* dequeue_batch returns `batch` to its caller
DequeueReturn(w, batch) ==
    [consumer[w] EXCEPT !.pc = consumer[w].resume, !.batch = batch, !.miss = <<>>,
                        !.ids = <<>>, !.n = 0, !.held = @ \cup Range(batch)]

\* dequeue_batch, lines 133-137: the atomic pop
Dequeue_pop(w) ==
    /\ Sched(w)
    /\ consumer[w].pc = "d_pop"
    /\ LET r == AtomicPop(queue, processing, consumer[w].n, now)
       IN  /\ queue' = r.queue
           /\ processing' = r.processing
           /\ consumer' = [consumer EXCEPT ![w] =
                IF r.ids = <<>>
                THEN DequeueReturn(w, <<>>)
                ELSE [consumer[w] EXCEPT !.pc = "d_get", !.ids = r.ids]]
    /\ UNCHANGED <<processed, data, failed, now, caller, reclaimer, pool, sessionVars, services>>
    /\ Observe

\* dequeue_batch, lines 139-153: one pipeline of GETs, then the split into the
\* result and the ids whose payload is missing
Dequeue_get(w) ==
    /\ Sched(w)
    /\ consumer[w].pc = "d_get"
    /\ LET ids == consumer[w].ids
           have == {i \in Range(ids) : data[i] # NoData}
           batch == SelectIds(ids, have)
           miss == SelectIds(ids, Range(ids) \ have)
       IN  consumer' = [consumer EXCEPT ![w] =
                IF miss = <<>>
                THEN DequeueReturn(w, batch)
                ELSE [consumer[w] EXCEPT !.pc = "d_requeue", !.batch = batch,
                                         !.miss = miss]]
    /\ UNCHANGED <<store, now, caller, reclaimer, pool, sessionVars, services>>
    /\ Observe

\* dequeue_batch, lines 154-158: "Data missing, re-queue": one ZADD to the
\* main queue per id without payload (the id is left in queue:processing)
Dequeue_requeue(w) ==
    /\ Sched(w)
    /\ consumer[w].pc = "d_requeue"
    /\ LET miss == consumer[w].miss
       IN  /\ queue' = ZAdd(queue, miss[1], QScore(now, 0))
           /\ consumer' = [consumer EXCEPT ![w] =
                IF Tail(miss) = <<>>
                THEN DequeueReturn(w, consumer[w].batch)
                ELSE [consumer[w] EXCEPT !.miss = Tail(miss)]]
    /\ UNCHANGED <<processed, processing, data, failed, now, caller, reclaimer,
                   pool, sessionVars, services>>
    /\ Observe

\* mark_processed, lines 213-226: one pipeline, ZREM queue:processing and the
\* DELs of the payloads
MarkProcessed(w) ==
    /\ Sched(w)
    /\ consumer[w].pc = "m_exec"
    /\ LET S == consumer[w].mset
       IN  /\ processing' = ZRem(processing, S)
           /\ data' = [i \in Ids |-> IF i \in S THEN NoData ELSE data[i]]
           /\ consumer' = [consumer EXCEPT ![w].pc = consumer[w].resume,
                                           ![w].mset = {}, ![w].held = @ \ S]
    /\ UNCHANGED <<processed, queue, failed, now, caller, reclaimer, pool, sessionVars, services>>
    /\ Observe

\* mark_failed, line 234: ZREM queue:processing
MarkFailed_zrem(w) ==
    /\ Sched(w)
    /\ consumer[w].pc = "f_zrem"
    /\ processing' = ZRem(processing, {consumer[w].fid})
    /\ consumer' = [consumer EXCEPT ![w].pc = "f_zadd"]
    /\ UNCHANGED <<processed, queue, data, failed, now, caller, reclaimer, pool,
                   sessionVars, services>>
    /\ Observe

\* mark_failed, lines 236-247: ZADD queue:failed, score = timestamp, so the
\* failed set reads in insertion order
MarkFailed_zadd(w) ==
    /\ Sched(w)
    /\ consumer[w].pc = "f_zadd"
    /\ failed' = Append(failed, [email_id |-> consumer[w].fid,
                                 error |-> consumer[w].ferr, retry_count |-> 0])
    /\ consumer' = [consumer EXCEPT ![w].pc = consumer[w].resume,
                                    ![w].fid = 0, ![w].ferr = "none",
                                    ![w].held = @ \ {consumer[w].fid}]
    /\ UNCHANGED <<processed, queue, processing, data, now, caller, reclaimer, pool,
                   sessionVars, services>>
    /\ Observe

\* Ids recorded in the dead-letter queue
DeadLettered == {failed[i].email_id : i \in 1..Len(failed)}

\* mark_email_processed, line 95: SADD email:processed
MarkEmailProcessed(id) == processed' = processed \cup {id}

\* ------------------------------------------------------------------ reclaimers
IdleReclaimer == [pc |-> "idle", t |-> 0, timed_out |-> {}, n |-> 0]

\* requeue_timeouts, lines 254-264: read the clock, ZRANGEBYSCORE processing 0 now
Requeue_read(r) ==
    /\ Sched(r)
    /\ reclaimer[r].pc = "q_read"
    /\ LET timed_out == ZRangeByScore(processing, now)
       IN  reclaimer' = [reclaimer EXCEPT ![r] =
                IF timed_out = {}
                THEN [@ EXCEPT !.pc = "idle"]
                ELSE [@ EXCEPT !.pc = "q_exec", !.t = now, !.timed_out = timed_out]]
    /\ UNCHANGED <<store, now, caller, consumer, pool, sessionVars, services>>
    /\ Observe

\* requeue_timeouts, lines 266-278: one pipeline, per id ZREM processing and
\* ZADD queue with the time read before
Requeue_exec(r) ==
    /\ Sched(r)
    /\ reclaimer[r].pc = "q_exec"
    /\ LET S == reclaimer[r].timed_out
       IN  /\ processing' = ZRem(processing, S)
           /\ queue' = [i \in Ids |-> IF i \in S THEN QScore(reclaimer[r].t, 0)
                                                 ELSE queue[i]]
           /\ reclaimer' = [reclaimer EXCEPT ![r].pc = "idle", ![r].t = 0,
                                             ![r].timed_out = {}]
    /\ UNCHANGED <<processed, data, failed, now, caller, consumer, pool, sessionVars, services>>
    /\ Observe

\* The clock advances
Tick ==
    /\ Sched("clock")
    /\ now + VISIBILITY_TIMEOUT <= MaxTime
    /\ now' = now + VISIBILITY_TIMEOUT
    /\ UNCHANGED <<store, caller, consumer, reclaimer, pool, sessionVars, services>>
    /\ Observe

\* ------------------------------------------------------------------ queue clients
\* A consumer calls dequeue_batch(n)
ClientDequeue(w, n) ==
    /\ Sched(w)
    /\ consumer[w].pc = "idle"
    /\ consumer[w].rounds < MaxRounds
    /\ consumer' = [consumer EXCEPT ![w].pc = "d_pop", ![w].resume = "idle",
                                    ![w].n = n, ![w].rounds = @ + 1]
    /\ UNCHANGED <<store, now, caller, reclaimer, pool, sessionVars, services>>
    /\ Observe

\* The consumer's work on a dequeued id succeeds: register_processed_email
ClientRegisterProcessed(w, id) ==
    /\ Sched(w)
    /\ consumer[w].pc = "idle"
    /\ id \in consumer[w].held
    /\ id \notin processed
    /\ MarkEmailProcessed(id)
    /\ UNCHANGED <<queue, processing, data, failed, now, caller, consumer, reclaimer,
                   pool, sessionVars, services>>
    /\ Observe

\* A consumer calls mark_processed(S) for ids it was given
ClientMarkProcessed(w, S) ==
    /\ Sched(w)
    /\ consumer[w].pc = "idle"
    /\ S # {}
    /\ S \subseteq consumer[w].held
    /\ consumer' = [consumer EXCEPT ![w].pc = "m_exec", ![w].resume = "idle",
                                    ![w].mset = S]
    /\ UNCHANGED <<store, now, caller, reclaimer, pool, sessionVars, services>>
    /\ Observe

\* A consumer calls mark_failed(id, error) for an id it was given
ClientMarkFailed(w, id) ==
    /\ Sched(w)
    /\ consumer[w].pc = "idle"
    /\ id \in consumer[w].held
    /\ consumer' = [consumer EXCEPT ![w].pc = "f_zrem", ![w].resume = "idle",
                                    ![w].fid = id, ![w].ferr = "client"]
    /\ UNCHANGED <<store, now, caller, reclaimer, pool, sessionVars, services>>
    /\ Observe

\* A reclaimer calls requeue_timeouts()
ClientRequeue(r) ==
    /\ Sched(r)
    /\ reclaimer[r].pc = "idle"
    /\ reclaimer[r].n < MaxReclaims
    /\ reclaimer' = [reclaimer EXCEPT ![r].pc = "q_read", ![r].n = @ + 1]
    /\ UNCHANGED <<store, now, caller, consumer, pool, sessionVars, services>>
    /\ Observe


\* ------------------------------------------------------------------ Spec
\* The queue under concurrent clients: two producers, a consumer, two reclaimers
\* The state after construction: empty store, every process idle.  started
\* says whether BatchEmailProcessor.start() has launched the loop thread, b is
\* the number of batches it has counted (modulo RECLAIM_EVERY)
Boot(h, started, b) ==
    /\ processed = {}
    /\ queue = EmptyZ
    /\ processing = EmptyZ
    /\ data = [i \in Ids |-> NoData]
    /\ failed = <<>>
    /\ now = 0
    /\ caller = [c \in Callers |-> IdleCaller]
    /\ consumer = [w \in AllConsumers |->
                        IF w = "bp" /\ started THEN [IdleConsumer EXCEPT !.pc = "l_check"]
                                               ELSE IdleConsumer]
    /\ reclaimer = [r \in AllReclaimers |-> IdleReclaimer]
    /\ pool = [IdlePool EXCEPT !.batches = b]
    /\ session = NoSession
    /\ history = <<>>
    /\ actor = [a \in AllActors |-> IdleActor]
    /\ hook = IdleHook
    /\ poller = IdlePoller
    /\ cursor = None
    /\ poll = IdlePoll
    /\ rate = [k \in RateKeys |-> NoRate]
    /\ outbound = <<>>
    /\ api = [c \in Components |-> "none"]
    /\ limiter = NoChecks
    /\ lock = NoLock
    /\ fault = {}
    /\ orch = IdleOrch
    /\ reg = NoRegs
    /\ web = IdleWeb
    /\ loop = IdleLoop
    /\ hist = h

\* What a specification draws at the start: the provider's listing, the
\* outcomes of the attempts of a call under api_retry, the answers of the
\* persistence API
Inputs(m, outs, resps) ==
    /\ mail = m
    /\ retry = [IdleRetry EXCEPT !.outs = outs]
    /\ send = [IdleSend EXCEPT !.resps = resps]

Start(h, started, b) == Boot(h, started, b) /\ Inputs(EmptyMailbox, <<>>, <<>>)

InitBut(h) == Start(h, FALSE, 0)

Init == InitBut(NoHist)

ProducerStep(c) ==
    \/ \E id \in Ids : Enqueue_sismember(c, id)
    \/ Enqueue_zscore(c)
    \/ Enqueue_setex(c)
    \/ Enqueue_zadd(c)
    \/ \E ids \in SeqsOf(Ids, 1, MaxBatchLen) : EnqueueBatch_smismember(c, ids)
    \/ EnqueueBatch_zscore(c)
    \/ EnqueueBatch_insert(c)

ConsumerStep(w) ==
    \/ ClientDequeue(w, DequeueSize)
    \/ Dequeue_pop(w)
    \/ Dequeue_get(w)
    \/ Dequeue_requeue(w)
    \/ \E id \in Ids : ClientRegisterProcessed(w, id)
    \/ \E S \in SUBSET Ids : ClientMarkProcessed(w, S)
    \/ MarkProcessed(w)
    \/ \E id \in Ids : ClientMarkFailed(w, id)
    \/ MarkFailed_zrem(w)
    \/ MarkFailed_zadd(w)

ReclaimerStep(r) ==
    \/ ClientRequeue(r)
    \/ Requeue_read(r)
    \/ Requeue_exec(r)

Next ==
    \/ ProducerStep("poller")
    \/ ConsumerStep("w1")
    \/ ReclaimerStep("r1")
    \/ Tick

Spec == Init /\ [][Next]_vars

\* C1: no id is at once in the main queue and in the in-flight set
C1_QueueInflightDisjoint == Members(queue) \cap Members(processing) = {}

\* C3: of two concurrent calls that enqueue the same id, which was neither
\* processed nor queued nor in flight when each began, exactly one accepts it
C3_ExactlyOneEnqueueWins ==
    \A c1, c2 \in Callers : \A id \in Ids :
        (/\ c1 # c2
         /\ caller[c1].done /\ caller[c2].done
         /\ c1 \in caller[c2].conc
         /\ caller[c1].free /\ caller[c2].free
         /\ id \in Range(caller[c1].ids) \cap Range(caller[c2].ids))
        => ((id \in Range(caller[c1].ret)) # (id \in Range(caller[c2].ret)))

\* The step is the ZADD of an enqueue or enqueue_batch call and puts id into
\* the main queue
AddedByEnqueue(id) ==
    /\ queue[id] = None /\ queue'[id] # None
    /\ \E c \in Callers : caller[c].pc \in {"e_zadd", "b_insert"} /\ Returns(c)

\* C5: no step of enqueue or enqueue_batch adds to the main queue an id that is
\* in the processed set
C5_ProcessedNeverReaccepted ==
    [][\A id \in Ids : id \in processed => ~AddedByEnqueue(id)]_vars

\* The step is the pipeline of a requeue_timeouts call and puts id back
PutBackByReclaim(r, id) ==
    /\ reclaimer[r].pc = "q_exec" /\ reclaimer'[r].pc = "idle"
    /\ id \in reclaimer[r].timed_out

\* C7: requeue_timeouts puts back into the main queue only ids that are in the
\* in-flight set with an expired deadline at that moment: not an id that was
\* marked processed, nor one that was reclaimed and dequeued again
C7_ReclaimOnlyExpiredInflight ==
    [][\A r \in AllReclaimers : \A id \in Ids :
          PutBackByReclaim(r, id) => (processing[id] # None /\ processing[id] <= now)]_vars

\* ------------------------------------------------------------------ RaceSpec
\* Two producers enqueue concurrently into an empty store
RaceNext == \E c \in Callers : ProducerStep(c)

RaceSpec == Init /\ [][RaceNext]_vars

\* ------------------------------------------------------------------ SeqSpec
\* The queue operations executed one at a time, each call observed
SeqInit == InitBut([NoHist EXCEPT !.mode = "calls"])

SeqSpec == SeqInit /\ [][Next]_vars

\* C4: enqueue(id, payload) run on its own returns the id iff the id was in none
\* of processed set, main queue and in-flight set; otherwise it returns None and
\* leaves main queue, in-flight set and payload as they were
C4_EnqueueContract ==
    (hist.who # "none" /\ hist.returned /\ caller[hist.who].op = "enqueue") =>
        LET id == caller[hist.who].ids[1]
            accepted == caller[hist.who].ret = <<id>>
            wasFree == /\ id \notin hist.pre.processed
                       /\ hist.pre.queue[id] = None
                       /\ hist.pre.processing[id] = None
        IN  /\ accepted <=> wasFree
            /\ ~accepted =>
                  /\ caller[hist.who].ret = <<>>
                  /\ hist.post.queue = hist.pre.queue
                  /\ hist.post.processing = hist.pre.processing
                  /\ hist.post.data = hist.pre.data

\* ------------------------------------------------------------------ C6Spec
\* Producers call enqueue_batch on pairwise distinct ids while consumers call
\* dequeue_batch; nothing is marked or reclaimed (test_queue_concurrency)
OwnIds(c) == {i \in Ids : (i % 2 = 1) <=> (c = "poller")}

\* Ids no call has been given yet: without marks and reclaims an id that was
\* enqueued stays in the main queue or in the in-flight set
Unused == {i \in Ids : /\ queue[i] = None /\ processing[i] = None
                       /\ \A c \in Callers : caller[c].pc = "idle"
                                             \/ i \notin Range(caller[c].ids)}

\* Sequences without repetition
Injective(q) == \A i, j \in 1..Len(q) : i # j => q[i] # q[j]

DistinctBatches(c) ==
    {ids \in SeqsOf(OwnIds(c) \cap Unused, 1, MaxBatchLen) : Injective(ids)}

C6Producer(c) ==
    \/ \E ids \in DistinctBatches(c) : EnqueueBatch_smismember(c, ids)
    \/ EnqueueBatch_zscore(c)
    \/ EnqueueBatch_insert(c)

C6Consumer(w) ==
    \/ ClientDequeue(w, DequeueSize)
    \/ Dequeue_pop(w)
    \/ Dequeue_get(w)

C6Next ==
    \/ \E c \in Callers : C6Producer(c)
    \/ \E w \in Consumers : C6Consumer(w)

C6Init == InitBut([NoHist EXCEPT !.mode = "deliveries"])

C6Spec == C6Init /\ [][C6Next]_vars

\* How often dequeue_batch calls have returned the id
TimesDelivered(id) == Cardinality({i \in 1..Len(hist.delivered) : hist.delivered[i][2] = id})

\* Ids a dequeue_batch call has popped and not yet returned
BeingDequeued == UNION {Range(consumer[w].ids) : w \in Consumers}

\* Ids that returned enqueue_batch calls report as accepted
AcceptedIds == UNION {Range(caller[c].ret) : c \in {d \in Callers : caller[d].done}}

\* C6: no id is lost or delivered twice: an accepted id is in exactly one of
\* main queue and in-flight set, an id is in flight from the step that popped
\* it, it is returned by at most one dequeue_batch call, and once its pop has
\* returned by exactly one
C6_NoLossNoDuplicate ==
    /\ \A id \in AcceptedIds : (queue[id] # None) # (processing[id] # None)
    /\ Members(queue) \cap Members(processing) = {}
    /\ \A w \in Consumers : consumer[w].pc # "d_requeue"
    /\ \A id \in Ids :
          /\ TimesDelivered(id) <= 1
          /\ TimesDelivered(id) = 1 => (processing[id] # None /\ queue[id] = None)
          /\ id \in BeingDequeued => (processing[id] # None /\ TimesDelivered(id) = 0)
          /\ (processing[id] # None /\ id \notin BeingDequeued) => TimesDelivered(id) = 1

\* Two consumers each got an id while an accepted id is still queued or both
\* are delivered
C6_Witness ==
    /\ \E i, j \in 1..Len(hist.delivered) :
          hist.delivered[i][1] = "w1" /\ hist.delivered[j][1] = "w2"
    /\ \A c \in Callers : caller[c].done /\ caller[c].ret # <<>>

\* ------------------------------------------------------------------ batch worker pool
\* The BatchEmailProcessor is the consumer and the reclaimer "bp"; its loop
\* position is consumer["bp"].pc
bp == consumer["bp"]
WorkFrame == UNCHANGED <<store, now, caller, reclaimer, sessionVars, hook, poller,
                         pollVars, auxVars, ctlVars, hist>>
PoolFrame == WorkFrame /\ UNCHANGED api

\* _processing_loop, lines 126-143: get_stats (ZCARD queue:emails), then either
\* sleep(fetch_interval) or call dequeue_batch(batch_size).  The body runs when
\* the while test (line 126) found the stop event clear; shutting_down (line
\* 131) is True when the event was set since
Pool_check ==
    /\ bp.pc = "l_check"
    /\ pool.stop => pool.mid
    /\ LET queue_size == Cardinality(Members(queue))
           shutting_down == pool.stop
       IN  consumer' = [consumer EXCEPT !["bp"] =
                IF queue_size < BatchSize /\ ~(shutting_down /\ queue_size > 0)
                THEN [@ EXCEPT !.pc = "l_sleep"]
                ELSE [@ EXCEPT !.pc = "d_pop", !.n = BatchSize, !.resume = "l_batch"]]
    /\ pool' = [pool EXCEPT !.mid = FALSE]
    /\ PoolFrame

\* lines 136-137 and 148-149: time.sleep(fetch_interval); continue
Pool_sleep ==
    /\ bp.pc = "l_sleep"
    /\ consumer' = [consumer EXCEPT !["bp"].pc = "l_check"]
    /\ UNCHANGED pool
    /\ PoolFrame

\* lines 145-155 and 199-215: an empty batch is retried after a sleep; else
\* every item of the batch is submitted to the executor
Pool_submit ==
    /\ bp.pc = "l_batch"
    /\ IF bp.batch = <<>>
       THEN /\ consumer' = [consumer EXCEPT !["bp"].pc = "l_sleep"]
            /\ UNCHANGED pool
       ELSE /\ consumer' = [consumer EXCEPT !["bp"].pc = "l_collect"]
            /\ pool' = [pool EXCEPT
                    !.fut = [i \in Ids |-> IF i \in Range(bp.batch) THEN "queued"
                                                                     ELSE "none"],
                    !.pids = <<>>, !.success = 0, !.failed = 0]
    /\ PoolFrame

\* Futures a pool thread is running
Running == {i \in Ids : pool.fut[i] \in {"running", "hung", "unpend", "count"}}

\* _process_single_email -> process_email, lines 30-38: a free pool thread
\* takes the item; SISMEMBER email:processed; an id already processed makes
\* process_email return False
Worker_begin(id) ==
    /\ pool.fut[id] = "queued"
    /\ Cardinality(Running) < MaxWorkers
    /\ pool' = [pool EXCEPT !.fut[id] = IF id \in processed THEN "false" ELSE "running"]
    /\ UNCHANGED consumer
    /\ PoolFrame

\* _move_to_junk / _save_attachments, lines 104-138: requests.post / requests.get
\* to the provider; how says whether an allowed reservation went before
Called(c, how) == [api EXCEPT ![c] = how]

\* process_email, lines 48-69: the provider is called (move to junk, or fetch
\* the attachments) with no reservation; the work succeeds,
\* register_processed_email (SADD email:processed), return True
Worker_succeed(id) ==
    /\ pool.fut[id] = "running"
    /\ MarkEmailProcessed(id)
    /\ pool' = [pool EXCEPT !.fut[id] = "true"]
    /\ api' = Called("worker", "bare")
    /\ UNCHANGED <<queue, processing, data, failed, now, caller, consumer, reclaimer,
                   sessionVars, hook, poller, pollVars, auxVars, ctlVars, hist>>

\* process_email, lines 71-73, and _process_single_email, lines 282-284: after
\* the provider call the work raises, the worker returns a falsy payload
Worker_fail(id) ==
    /\ pool.fut[id] = "running"
    /\ pool' = [pool EXCEPT !.fut[id] = "false"]
    /\ api' = Called("worker", "bare")
    /\ UNCHANGED consumer
    /\ WorkFrame

\* _process_batch_parallel, lines 217-235: as_completed yields a finished
\* future with a payload; publish to the bus (a failure is logged), append to
\* processed_ids
Pool_collect_ok(id, published) ==
    /\ bp.pc = "l_collect"
    /\ pool.fut[id] = "true"
    /\ pool' = [pool EXCEPT !.fut[id] = "collected", !.success = @ + 1,
                            !.pids = Append(@, id),
                            !.bus = IF published THEN @ \cup {id} ELSE @]
    /\ UNCHANGED consumer
    /\ PoolFrame

\* _process_batch_parallel, lines 236-238: a finished future without payload:
\* call queue.mark_failed
Pool_collect_failed(id) ==
    /\ bp.pc = "l_collect"
    /\ pool.fut[id] = "false"
    /\ pool' = [pool EXCEPT !.fut[id] = "collected", !.failed = @ + 1]
    /\ consumer' = [consumer EXCEPT !["bp"].pc = "f_zrem", !["bp"].resume = "l_collect",
                                    !["bp"].fid = id,
                                    !["bp"].ferr = "Processing failed or returned no payload"]
    /\ PoolFrame

\* Every future of the batch has been yielded by as_completed
AllCollected == \A i \in Ids : pool.fut[i] \in {"none", "collected"}

\* A collection loop that stops at the first success instead of draining
\* as_completed
Pool_mark_Early ==
    /\ bp.pc = "l_collect"
    /\ pool.pids # <<>>
    /\ consumer' = [consumer EXCEPT !["bp"] =
            [@ EXCEPT !.pc = "m_exec", !.resume = "l_stats", !.mset = Range(pool.pids)]]
    /\ UNCHANGED pool
    /\ PoolFrame

\* _process_batch_parallel, lines 247-254: after the as_completed loop, call
\* queue.mark_processed(processed_ids) if there are any
Pool_mark ==
    /\ bp.pc = "l_collect"
    /\ AllCollected
    /\ consumer' = [consumer EXCEPT !["bp"] =
            IF pool.pids # <<>>
            THEN [@ EXCEPT !.pc = "m_exec", !.resume = "l_stats", !.mset = Range(pool.pids)]
            ELSE [@ EXCEPT !.pc = "l_stats"]]
    /\ UNCHANGED pool
    /\ PoolFrame

\* _processing_loop, lines 158-178: count the batch; every RECLAIM_EVERY
\* batches call requeue_timeouts; sleep(0.5) and loop
Pool_stats ==
    /\ bp.pc = "l_stats"
    /\ LET n == (pool.batches + 1) % RECLAIM_EVERY
       IN  /\ pool' = [pool EXCEPT !.batches = n]
           /\ IF n = 0
              THEN /\ consumer' = [consumer EXCEPT !["bp"].pc = "l_reclaim"]
                   /\ reclaimer' = [reclaimer EXCEPT !["bp"].pc = "q_read"]
              ELSE /\ consumer' = [consumer EXCEPT !["bp"].pc = "l_check"]
                   /\ UNCHANGED reclaimer
    /\ UNCHANGED <<store, now, caller, sessionVars, services, hist>>

\* requeue_timeouts has returned
Pool_reclaimed ==
    /\ bp.pc = "l_reclaim"
    /\ reclaimer["bp"].pc = "idle"
    /\ consumer' = [consumer EXCEPT !["bp"].pc = "l_check"]
    /\ UNCHANGED pool
    /\ PoolFrame

PoolStep ==
    \/ Pool_check
    \/ Pool_sleep
    \/ Dequeue_pop("bp")
    \/ Dequeue_get("bp")
    \/ Dequeue_requeue("bp")
    \/ Pool_submit
    \/ \E id \in Ids : \E published \in BOOLEAN : Pool_collect_ok(id, published)
    \/ \E id \in Ids : Pool_collect_failed(id)
    \/ MarkFailed_zrem("bp")
    \/ MarkFailed_zadd("bp")
    \/ Pool_mark
    \/ MarkProcessed("bp")
    \/ Pool_stats
    \/ Requeue_read("bp")
    \/ Requeue_exec("bp")
    \/ Pool_reclaimed

WorkerStep ==
    \/ \E id \in Ids : Worker_begin(id)
    \/ \E id \in Ids : Worker_succeed(id)
    \/ \E id \in Ids : Worker_fail(id)

\* ------------------------------------------------------------------ PoolSpec
\* A started BatchEmailProcessor, a producer, the clock.  The processor may
\* have counted batches of earlier ids before
PoolInit == \E b \in {0, RECLAIM_EVERY - 2} : Start(NoHist, TRUE, b)

PoolNext ==
    \/ ProducerStep("poller")
    \/ PoolStep
    \/ WorkerStep
    \/ Tick

PoolSpec == PoolInit /\ [][PoolNext]_vars

\* The loop thread and the pool threads keep running
LiveSpec == PoolSpec /\ WF_vars(PoolStep) /\ WF_vars(WorkerStep)

\* The id has reached the processed set or the dead-letter queue
Settled(id) == id \in processed \/ id \in DeadLettered

\* C2: every id accepted into the main queue is eventually in the processed
\* set or in the dead-letter queue, given that the loop thread and the pool
\* threads keep running, even when fewer than batch_size ids are waiting
C2_AcceptedEventuallySettled ==
    \A id \in Ids : (queue[id] # None) ~> Settled(id)

\* C8: mark_processed is called for a batch only after every worker of the
\* batch has completed, and removes all its successful ids from in-flight in
\* one step: before the call they are all in flight, after it none is
C8_MarkAfterAllWorkers ==
    /\ bp.pc = "m_exec" =>
          /\ AllCollected
          /\ bp.mset = Range(pool.pids)
          /\ bp.mset \subseteq Members(processing)
    /\ bp.pc = "l_stats" => Range(pool.pids) \cap Members(processing) = {}

\* A batch with more than one success has just been marked
C8_Witness ==
    /\ bp.pc = "l_stats"
    /\ Cardinality(Range(pool.pids)) > 1
    /\ pool.failed = 0

\* ------------------------------------------------------------------ session manager
\* get_session_state: HGETALL; an empty hash reads as {} (falsy)
Exists(s) == s # NoSession

\* HSET key mapping: the given fields are overwritten, the others stay
HSet(s, m) == [f \in Fields |-> IF f \in DOMAIN m THEN m[f] ELSE s[f]]

\* update_session_field: HSET key field str(value)
UpdateField(s, f, v) == [s EXCEPT ![f] = v]

\* Counters are decimal strings in the hash
Digits == <<"0", "1", "2", "3", "4", "5", "6", "7", "8", "9">>
ToStr(n) == Digits[n + 1]
ToInt(v) == IF v = Absent THEN 0 ELSE CHOOSE n \in 0..9 : Digits[n + 1] = v

\* increment_session_counter: HINCRBY key field 1
IncrementCounter(s, f) == [s EXCEPT ![f] = ToStr(ToInt(@) + 1)]

\* save_session_history: LPUSH sessions:history
SaveHistory(h, s) == <<s>> \o h

SessionFrame == UNCHANGED <<store, now, caller, consumer, reclaimer, pool, services, hist>>

\* The actor's record when it enters a call: the call starts by reading the hash
SessionCall(a, op, webhook) ==
    [IdleActor EXCEPT !.op = op, !.webhook = webhook, !.cur = session, !.pre = session,
                      !.calls = actor[a].calls + 1,
                      !.conc = {b \in AllActors \ {a} : actor[b].pc # "idle"}]

\* The actor's record when its call returns r with the hash being s
SessionReturn(rec, r, s) ==
    [rec EXCEPT !.pc = "idle", !.ret = r, !.post = s, !.cur = NoSession]

\* Actor a enters a call with record rec; calls in progress note the overlap
Enter(a, rec) ==
    actor' = [b \in AllActors |->
                IF b = a THEN rec
                ELSE IF actor[b].pc # "idle" THEN [actor[b] EXCEPT !.conc = @ \cup {a}]
                ELSE actor[b]]

\* The webhook handler calls the session manager only from _activate_fallback
CanCall(a) ==
    /\ Sched(a)
    /\ actor[a].pc = "idle"
    /\ actor[a].calls < MaxSessionCalls
    /\ a = "hook" => (hook.pc = "activate" /\ actor[a].calls = hook.calls)

At(a, pc) == Sched(a) /\ actor[a].pc = pc

Goto(a, pc) == actor' = [actor EXCEPT ![a].pc = pc]

Leave(a, r) == actor' = [actor EXCEPT ![a] = SessionReturn(@, r, session')]

\* ---- start_session
\* A guard that refuses only the states start_session itself writes
StartRefusedLax(cur) == Exists(cur) /\ cur["state"] \in {"both_active", "polling_active"}

\* line 51: a record whose state is neither idle nor terminated refuses
StartRefused(cur) == Exists(cur) /\ cur["state"] \notin {"idle", "terminated"}

\* lines 64-76: the mapping start_session writes (the other fields of the
\* mapping are constants of the config)
SessionData(a) ==
    [session_id |-> a,
     state |-> IF actor[a].webhook THEN "both_active" ELSE "polling_active",
     webhook_enabled |-> IF actor[a].webhook THEN "True" ELSE "False",
     polling_errors |-> "0",
     webhook_errors |-> "0",
     processed_count |-> "0",
     pending_count |-> "0",
     timestamp |-> "t"]

\* lines 103-110: the mapping set_failed_to_start writes
FailedData(a) ==
    [session_id |-> a, state |-> "failed_to_start", end_time |-> "t",
     failure_reason |-> "error", timestamp |-> "t"]

\* lines 50-53
StartSession_read(a, webhook) ==
    /\ CanCall(a)
    /\ LET rec == SessionCall(a, "start_session", webhook)
       IN  Enter(a, IF StartRefused(session) THEN SessionReturn(rec, "False", session)
                                              ELSE [rec EXCEPT !.pc = "s_write"])
    /\ UNCHANGED <<session, history>>
    /\ SessionFrame

\* lines 78-87: set_session_state, return True
StartSession_write(a) ==
    /\ At(a, "s_write")
    /\ session' = HSet(session, SessionData(a))
    /\ Leave(a, "True")
    /\ UNCHANGED history
    /\ SessionFrame

\* lines 89-92: set_session_state raises, before its HSET or after it (at the
\* EXPIRE)
StartSession_raise(a) ==
    /\ At(a, "s_write")
    /\ session' \in {session, HSet(session, SessionData(a))}
    /\ Goto(a, "s_failed")
    /\ UNCHANGED history
    /\ SessionFrame

\* lines 92-93 and set_failed_to_start, lines 101-112
StartSession_failed(a) ==
    /\ At(a, "s_failed")
    /\ session' = HSet(session, FailedData(a))
    /\ Leave(a, "False")
    /\ UNCHANGED history
    /\ SessionFrame

\* ---- complete_initial_polling
\* lines 182-185
Complete_read(a) ==
    /\ CanCall(a)
    /\ LET rec == SessionCall(a, "complete_initial_polling", FALSE)
       IN  Enter(a, IF ~Exists(session) \/ session["state"] # "both_active"
                    THEN SessionReturn(rec, "False", session)
                    ELSE [rec EXCEPT !.pc = "c_state"])
    /\ UNCHANGED <<session, history>>
    /\ SessionFrame

\* line 188
Complete_state(a) ==
    /\ At(a, "c_state")
    /\ session' = UpdateField(session, "state", "webhook_active")
    /\ Goto(a, "c_ts")
    /\ UNCHANGED history
    /\ SessionFrame

\* lines 189-193
Complete_ts(a) ==
    /\ At(a, "c_ts")
    /\ session' = UpdateField(session, "timestamp", "t")
    /\ Leave(a, "True")
    /\ UNCHANGED history
    /\ SessionFrame

\* ---- activate_fallback_polling
\* lines 197-202 and 214
Fallback_read(a) ==
    /\ CanCall(a)
    /\ LET rec == SessionCall(a, "activate_fallback_polling", FALSE)
       IN  Enter(a, IF ~Exists(session) \/ session["state"] # "webhook_active"
                    THEN SessionReturn(rec, "False", session)
                    ELSE [rec EXCEPT !.pc = "f_state"])
    /\ UNCHANGED <<session, history>>
    /\ SessionFrame

\* line 205
Fallback_state(a) ==
    /\ At(a, "f_state")
    /\ session' = UpdateField(session, "state", "both_active")
    /\ Goto(a, "f_incr")
    /\ UNCHANGED history
    /\ SessionFrame

\* line 206
Fallback_incr(a) ==
    /\ At(a, "f_incr")
    /\ session' = IncrementCounter(session, "webhook_errors")
    /\ Goto(a, "f_reason")
    /\ UNCHANGED history
    /\ SessionFrame

\* lines 216-218: the store raises at the increment; set_session_error follows
Fallback_raise(a) ==
    /\ At(a, "f_incr")
    /\ Goto(a, "e_state")
    /\ UNCHANGED <<session, history>>
    /\ SessionFrame

\* line 207
Fallback_reason(a) ==
    /\ At(a, "f_reason")
    /\ session' = UpdateField(session, "fallback_reason", "reason")
    /\ Goto(a, "f_ts")
    /\ UNCHANGED history
    /\ SessionFrame

\* lines 208-212
Fallback_ts(a) ==
    /\ At(a, "f_ts")
    /\ session' = UpdateField(session, "timestamp", "t")
    /\ Leave(a, "True")
    /\ UNCHANGED history
    /\ SessionFrame

\* ---- set_session_error
\* line 116: called by the orchestrator (main_orchestrator.py, line 176)
SetSessionError_call(a) ==
    /\ CanCall(a)
    /\ Enter(a, [SessionCall(a, "set_session_error", FALSE) EXCEPT !.pc = "e_state"])
    /\ UNCHANGED <<session, history>>
    /\ SessionFrame

\* line 123
SetSessionError_state(a) ==
    /\ At(a, "e_state")
    /\ session' = UpdateField(session, "state", "session_error")
    /\ Goto(a, "e_details")
    /\ UNCHANGED history
    /\ SessionFrame

\* line 124
SetSessionError_details(a) ==
    /\ At(a, "e_details")
    /\ session' = UpdateField(session, "error_details", "error")
    /\ Goto(a, "e_context")
    /\ UNCHANGED history
    /\ SessionFrame

\* line 125
SetSessionError_context(a) ==
    /\ At(a, "e_context")
    /\ session' = UpdateField(session, "error_context", "context")
    /\ Goto(a, "e_ts")
    /\ UNCHANGED history
    /\ SessionFrame

\* line 126; activate_fallback_polling then returns False (line 219)
SetSessionError_ts(a) ==
    /\ At(a, "e_ts")
    /\ session' = UpdateField(session, "error_timestamp", "t")
    /\ Leave(a, IF actor[a].op = "activate_fallback_polling" THEN "False" ELSE "None")
    /\ UNCHANGED history
    /\ SessionFrame

\* ---- restore_webhook_only
\* lines 223-227 and 237
Restore_read(a) ==
    /\ CanCall(a)
    /\ LET rec == SessionCall(a, "restore_webhook_only", FALSE)
       IN  Enter(a, IF ~Exists(session) \/ session["state"] # "both_active"
                    THEN SessionReturn(rec, "False", session)
                    ELSE [rec EXCEPT !.pc = "r_state"])
    /\ UNCHANGED <<session, history>>
    /\ SessionFrame

\* line 230
Restore_state(a) ==
    /\ At(a, "r_state")
    /\ session' = UpdateField(session, "state", "webhook_active")
    /\ Goto(a, "r_errors")
    /\ UNCHANGED history
    /\ SessionFrame

\* line 231
Restore_errors(a) ==
    /\ At(a, "r_errors")
    /\ session' = UpdateField(session, "webhook_errors", "0")
    /\ Goto(a, "r_ts")
    /\ UNCHANGED history
    /\ SessionFrame

\* lines 232-235
Restore_ts(a) ==
    /\ At(a, "r_ts")
    /\ session' = UpdateField(session, "timestamp", "t")
    /\ Leave(a, "True")
    /\ UNCHANGED history
    /\ SessionFrame

\* ---- recover_from_error
\* A check that accepts every stored record, whatever its state
CanRecoverLax(cur) == Exists(cur)

\* can_recover_from_error, lines 136-147
CanRecover(cur) == Exists(cur) /\ cur["state"] \in {"failed_to_start", "session_error"}

\* lines 159-161
Recover_check(a) ==
    /\ CanCall(a)
    /\ LET rec == SessionCall(a, "recover_from_error", FALSE)
       IN  Enter(a, IF ~CanRecover(session) THEN SessionReturn(rec, "False", session)
                                            ELSE [rec EXCEPT !.pc = "v_read"])
    /\ UNCHANGED <<session, history>>
    /\ SessionFrame

\* lines 165-166
Recover_read(a) ==
    /\ At(a, "v_read")
    /\ actor' = [actor EXCEPT ![a].cur = session,
                              ![a].pc = IF Exists(session) THEN "v_save" ELSE "v_delete"]
    /\ UNCHANGED <<session, history>>
    /\ SessionFrame

\* line 167
Recover_save(a) ==
    /\ At(a, "v_save")
    /\ history' = SaveHistory(history, actor[a].cur)
    /\ Goto(a, "v_delete")
    /\ UNCHANGED session
    /\ SessionFrame

\* lines 170-174
Recover_delete(a) ==
    /\ At(a, "v_delete")
    /\ session' = NoSession
    /\ Leave(a, "True")
    /\ UNCHANGED history
    /\ SessionFrame

\* ---- terminate_session
\* lines 274-287
Terminate_read(a) ==
    /\ CanCall(a)
    /\ LET rec == SessionCall(a, "terminate_session", FALSE)
       IN  Enter(a, IF ~Exists(session) THEN SessionReturn(rec, "None", session)
                                        ELSE [rec EXCEPT !.pc = "t_state"])
    /\ UNCHANGED <<session, history>>
    /\ SessionFrame

\* line 290
Terminate_state(a) ==
    /\ At(a, "t_state")
    /\ session' = UpdateField(session, "state", "terminated")
    /\ Goto(a, "t_end")
    /\ UNCHANGED history
    /\ SessionFrame

\* line 291
Terminate_end(a) ==
    /\ At(a, "t_end")
    /\ session' = UpdateField(session, "end_time", "t")
    /\ Goto(a, "t_reason")
    /\ UNCHANGED history
    /\ SessionFrame

\* line 292
Terminate_reason(a) ==
    /\ At(a, "t_reason")
    /\ session' = UpdateField(session, "termination_reason", "reason")
    /\ Goto(a, "t_final")
    /\ UNCHANGED history
    /\ SessionFrame

\* line 294
Terminate_final(a) ==
    /\ At(a, "t_final")
    /\ actor' = [actor EXCEPT ![a].cur = session, ![a].pc = "t_save"]
    /\ UNCHANGED <<session, history>>
    /\ SessionFrame

\* line 295
Terminate_save(a) ==
    /\ At(a, "t_save")
    /\ history' = SaveHistory(history, actor[a].cur)
    /\ UNCHANGED session
    /\ Leave(a, "None")
    /\ SessionFrame

ActorStep(a) ==
    \/ \E webhook \in BOOLEAN : StartSession_read(a, webhook)
    \/ StartSession_write(a)
    \/ StartSession_raise(a)
    \/ StartSession_failed(a)
    \/ Complete_read(a)
    \/ Complete_state(a)
    \/ Complete_ts(a)
    \/ Fallback_read(a)
    \/ Fallback_state(a)
    \/ Fallback_incr(a)
    \/ Fallback_raise(a)
    \/ Fallback_reason(a)
    \/ Fallback_ts(a)
    \/ SetSessionError_call(a)
    \/ SetSessionError_state(a)
    \/ SetSessionError_details(a)
    \/ SetSessionError_context(a)
    \/ SetSessionError_ts(a)
    \/ Restore_read(a)
    \/ Restore_state(a)
    \/ Restore_errors(a)
    \/ Restore_ts(a)
    \/ Recover_check(a)
    \/ Recover_read(a)
    \/ Recover_save(a)
    \/ Recover_delete(a)
    \/ Terminate_read(a)
    \/ Terminate_state(a)
    \/ Terminate_end(a)
    \/ Terminate_reason(a)
    \/ Terminate_final(a)
    \/ Terminate_save(a)

SessionNext == \E a \in Actors : ActorStep(a)

\* ------------------------------------------------------------------ SessionSpec
\* Two threads call the session manager concurrently
SessionSpec == Init /\ [][SessionNext]_vars

\* ------------------------------------------------------------------ SessionSeqSpec
\* The session manager's calls are made one at a time
SessionSeqSpec == SeqInit /\ [][SessionNext]_vars

\* The actor's last call returned True
Succeeded(a) == actor[a].ret = "True"
StateOf(s) == s["state"]

\* The source states the table allows for an operation
AllowedSource(op, pre) ==
    CASE op = "start_session" ->
            ~Exists(pre) \/ StateOf(pre) \in {"idle", "terminated"}
      [] op \in {"complete_initial_polling", "restore_webhook_only"} ->
            StateOf(pre) = "both_active"
      [] op = "activate_fallback_polling" -> StateOf(pre) = "webhook_active"
      [] op = "recover_from_error" -> StateOf(pre) \in {"failed_to_start", "session_error"}
      [] OTHER -> TRUE

\* The state a successful operation leaves
TargetOk(a, post) ==
    CASE actor[a].op = "start_session" ->
            StateOf(post) = IF actor[a].webhook THEN "both_active" ELSE "polling_active"
      [] actor[a].op \in {"complete_initial_polling", "restore_webhook_only"} ->
            StateOf(post) = "webhook_active"
      [] actor[a].op = "activate_fallback_polling" -> StateOf(post) = "both_active"
      [] OTHER -> TRUE

TableOps == {"start_session", "complete_initial_polling", "restore_webhook_only",
             "activate_fallback_polling", "recover_from_error"}

\* C9: with calls made one at a time, an operation of the table succeeds only
\* from an allowed source state and then leaves the table's target state; a
\* call made in any other state returns False and leaves the record unchanged
C9_TransitionTable ==
    \A a \in Actors :
        (actor[a].ret # "none" /\ actor[a].op \in TableOps) =>
            /\ Succeeded(a) => /\ AllowedSource(actor[a].op, actor[a].pre)
                               /\ TargetOk(a, actor[a].post)
            /\ ~AllowedSource(actor[a].op, actor[a].pre) =>
                  /\ actor[a].ret = "False"
                  /\ actor[a].post = actor[a].pre

\* One actor was refused a start_session on a webhook_active session, which
\* left the record as it was, and the other's activate_fallback_polling
\* succeeded
C9_Witness ==
    /\ actor["orch"].op = "start_session" /\ actor["orch"].ret = "False"
    /\ StateOf(actor["orch"].pre) = "webhook_active"
    /\ actor["orch"].post = actor["orch"].pre
    /\ actor["api"].op = "activate_fallback_polling" /\ Succeeded("api")

\* Actor a writes the state field as the result of a guarded transition
WritesState(a) ==
    /\ actor[a].pc \in {"s_write", "c_state", "f_state", "r_state"}
    /\ actor'[a].pc # actor[a].pc
    /\ StateOf(session') # StateOf(session)

\* Both actors' start_session calls overlapped and both returned True
BothStartsSucceeded ==
    /\ \A a \in Actors : actor[a].op = "start_session" /\ Succeeded(a)
    /\ "api" \in actor["orch"].conc

\* C10: transitions are a compare-and-set on the state field: a transition
\* writes the state only if it is still the state the transition read; the
\* state never goes from terminated to webhook_active; two concurrent
\* start_session calls never both succeed
C10_CompareAndSet ==
    /\ [][\A a \in Actors : WritesState(a) => StateOf(session) = StateOf(actor[a].cur)]_vars
    /\ [][~(StateOf(session) = "terminated" /\ StateOf(session') = "webhook_active")]_vars
    /\ []~BothStartsSucceeded

\* ------------------------------------------------------------------ webhook handler errors
HookFrame == UNCHANGED <<store, now, caller, consumer, reclaimer, pool, sessionVars,
                         pollVars, auxVars, api, ctlVars, hist>>

\* A threshold test that fires one error late
ReachedThresholdLate(n) == n > MAX_ERRORS

\* handle_notification, line 216: self.error_count >= self.max_errors
ReachedThreshold(n) == n >= MAX_ERRORS

\* PollingService.start, lines 44-60: refused when already active
PollerStart(p, mode) == IF p.active THEN p ELSE [p EXCEPT !.active = TRUE, !.mode = mode]

\* handle_notification, lines 198-209: a notification batch was handled
\* (its enqueues are the calls of the producer "webhook"); error_count resets
Notify_ok ==
    /\ Sched("hook")
    /\ hook.pc = "idle" /\ actor["hook"].pc = "idle"
    /\ hook.error_count > 0
    /\ hook' = [hook EXCEPT !.error_count = 0]
    /\ UNCHANGED poller
    /\ HookFrame

\* handle_notification, lines 211-217: the handling raised; count the error
\* and at the threshold enter _activate_fallback
Notify_error ==
    /\ Sched("hook")
    /\ hook.pc = "idle" /\ actor["hook"].pc = "idle"
    /\ hook.error_count < MAX_ERRORS + MaxExtraErrors
    /\ LET n == hook.error_count + 1
       IN  /\ ReachedThreshold(n) => actor["hook"].calls < MaxSessionCalls
           /\ hook' = [hook EXCEPT !.error_count = n,
                                   !.pc = IF ReachedThreshold(n) THEN "activate" ELSE "idle",
                                   !.calls = actor["hook"].calls]
    /\ UNCHANGED poller
    /\ HookFrame

\* _activate_fallback, lines 232-234, after activate_fallback_polling has
\* returned: polling_service.start(mode=FALLBACK), which creates the thread of
\* the polling loop unless the service is active; the handler returns
Hook_start_poller ==
    /\ Sched("hook")
    /\ hook.pc = "activate"
    /\ actor["hook"].pc = "idle" /\ actor["hook"].calls = hook.calls + 1
    /\ poller' = PollerStart(poller, "fallback")
    /\ loop' = IF poller.active THEN loop ELSE [loop EXCEPT !.pc = "check"]
    /\ hook' = [hook EXCEPT !.pc = "idle"]
    /\ UNCHANGED <<store, now, caller, consumer, reclaimer, pool, sessionVars,
                   pollVars, auxVars, api, lock, fault, orch, reg, web, hist>>

\* _activate_fallback, lines 228-230: the handler's activate_fallback_polling
HookFallbackStep ==
    \/ Fallback_read("hook")
    \/ Fallback_state("hook")
    \/ Fallback_incr("hook")
    \/ Fallback_raise("hook")
    \/ Fallback_reason("hook")
    \/ Fallback_ts("hook")
    \/ SetSessionError_state("hook")
    \/ SetSessionError_details("hook")
    \/ SetSessionError_context("hook")
    \/ SetSessionError_ts("hook")

HookStep ==
    \/ Notify_ok
    \/ Notify_error
    \/ HookFallbackStep
    \/ Hook_start_poller

\* The session operations of an operator around a fallback
OperatorStep(a) ==
    \/ \E webhook \in BOOLEAN : StartSession_read(a, webhook)
    \/ StartSession_write(a)
    \/ Complete_read(a)
    \/ Complete_state(a)
    \/ Complete_ts(a)
    \/ Restore_read(a)
    \/ Restore_state(a)
    \/ Restore_errors(a)
    \/ Restore_ts(a)

\* ------------------------------------------------------------------ FallbackSpec
\* The webhook handler and the operators, one call at a time
FallbackNext ==
    \/ HookStep
    \/ \E a \in Actors : OperatorStep(a)

FallbackSpec == SeqInit /\ [][FallbackNext]_vars

PollKey == "graph_api_polling"

PollFrame == UNCHANGED <<store, now, consumer, reclaimer, pool, history, actor,
                         hook, poller, mail, auxVars, ctlVars, hist>>

\* check_rate_limit, lines 385-393: INCR, EXPIRE on the first request of a
\* window; returns (count <= limit, count)
Incr(r) == [r EXCEPT !.n = @ + 1]
Expire(r) == [r EXCEPT !.ttl = TRUE]
Reserve(k) == rate' = [rate EXCEPT ![k] = IF @.n = 0 THEN Expire(Incr(@)) ELSE Incr(@)]
\* A limit test that refuses the call that reaches the limit
WithinLimitStrict(count) == count < GRAPH_API_RATE_LIMIT_THRESHOLD
\* check_rate_limit, line 392: allowed = count <= limit
WithinLimit(count) == count <= GRAPH_API_RATE_LIMIT_THRESHOLD
Allowed(k) == WithinLimit(rate[k].n + 1)
CanDeny(k) == ~Allowed(k) /\ rate[k].n < GRAPH_API_RATE_LIMIT_THRESHOLD + MaxDenied

\* The TTL of a counter key runs out: the window is over
RateExpire(k) ==
    /\ rate[k].ttl
    /\ rate' = [rate EXCEPT ![k] = NoRate]
    /\ UNCHANGED <<queueVars, pool, sessionVars, hook, poller, cursor, mail, poll,
                   auxVars, api, ctlVars, hist>>

\* _fetch_unread_emails, lines 303-309: what the page loop returns when it
\* ends for the reason why
FetchReturn(p, why) ==
    LET more == p.pages >= MAX_POLL_PAGES /\ p.url # None
    IN  [p EXCEPT !.next = IF more THEN p.url ELSE None, !.stop = why, !.pc = "cursor"]

\* poll_once, lines 198-208: the except branch counts the error and returns
PollError(p) == [p EXCEPT !.pc = "idle", !.ret = "error", !.has_more = FALSE]

\* poll_once, lines 187-196: the success return
PollSuccess(p) == [p EXCEPT !.pc = "idle", !.ret = "success", !.has_more = p.next # None]

\* poll_once, lines 121-134: read the cursor and enter _fetch_unread_emails,
\* whose url is the cursor or the fresh unread query (lines 246-262)
Poll_begin ==
    /\ poll.pc = "idle"
    /\ poll.polls < MaxPolls
    /\ poll' = [IdlePoll EXCEPT !.pc = "fetch", !.resume = cursor,
                                !.url = IF cursor # None THEN cursor ELSE 1,
                                !.polls = poll.polls + 1]
    /\ UNCHANGED <<cursor, rate, session, caller, api>>
    /\ PollFrame

\* _fetch_unread_emails, lines 268-301: one pass of the page loop whose
\* reservation was allowed; the GET answers 200 with a page, another status
\* (break), or fails with a RequestError, which api_retry re-raises at once
Poll_get(out) ==
    /\ poll.pc = "fetch"
    /\ poll.url # None /\ poll.pages < MAX_POLL_PAGES
    /\ Allowed(PollKey)
    /\ Reserve(PollKey)
    /\ LET p == [poll EXCEPT !.first = IF @ = None THEN poll.url ELSE @]
       IN  CASE out = "ok" ->
                  /\ poll' = [p EXCEPT !.msgs = @ \o mail[poll.url],
                                       !.pages = @ + 1,
                                       !.url = IF poll.url < Len(mail) THEN poll.url + 1
                                                                       ELSE None]
                  /\ UNCHANGED session
             [] out = "status" ->
                  /\ poll' = FetchReturn(p, "status")
                  /\ UNCHANGED session
             [] out = "error" ->
                  /\ poll' = PollError([p EXCEPT !.stop = "error"])
                  /\ session' = IncrementCounter(session, "polling_errors")
    /\ api' = Called("poller", "reserved")
    /\ UNCHANGED <<cursor, caller>>
    /\ PollFrame

\* _check_and_wait_for_rate_limit, lines 85-90: the reservation was denied
\* (it still counts); the caller sleeps on the stop event
Poll_denied ==
    /\ \/ poll.pc = "fetch" /\ poll.url # None /\ poll.pages < MAX_POLL_PAGES
       \/ poll.pc = "mark"
    /\ CanDeny(PollKey)
    /\ Reserve(PollKey)
    /\ poll' = [poll EXCEPT !.pc = IF @ = "fetch" THEN "wait" ELSE "mwait"]
    /\ UNCHANGED <<cursor, session, caller, api>>
    /\ PollFrame

\* _check_and_wait_for_rate_limit, lines 88-92: the sleep ends; with the stop
\* event set the check returns False (the page loop breaks, line 271-273; the
\* mark-as-read returns, line 337-338), otherwise it checks again
Poll_wait(stopped) ==
    /\ poll.pc \in {"wait", "mwait"}
    /\ poll' = IF poll.pc = "wait"
               THEN (IF stopped THEN FetchReturn(poll, "stopped")
                                ELSE [poll EXCEPT !.pc = "fetch"])
               ELSE (IF stopped THEN PollSuccess(poll)
                                ELSE [poll EXCEPT !.pc = "mark"])
    /\ UNCHANGED <<cursor, rate, session, caller, api>>
    /\ PollFrame

\* _fetch_unread_emails, line 268: the loop condition fails
Poll_fetched ==
    /\ poll.pc = "fetch"
    /\ ~(poll.url # None /\ poll.pages < MAX_POLL_PAGES)
    /\ poll' = FetchReturn(poll, IF poll.url # None THEN "limit" ELSE "end")
    /\ UNCHANGED <<cursor, rate, session, caller, api>>
    /\ PollFrame

\* poll_once, lines 137-158, with _set_pagination_cursor (lines 108-119):
\* no messages: DEL and return; otherwise SETEX the next cursor, or DEL
Poll_set_cursor ==
    /\ poll.pc = "cursor"
    /\ IF poll.msgs = <<>>
       THEN /\ cursor' = None
            /\ poll' = [PollSuccess(poll) EXCEPT !.has_more = FALSE]
       ELSE /\ cursor' = poll.next
            /\ poll' = [poll EXCEPT !.pc = "enqueue", !.calls = caller["poller"].calls]
    /\ UNCHANGED <<rate, session, caller, api>>
    /\ PollFrame

\* poll_once, lines 162-167: enqueue_batch with the fetched messages
Poll_enqueue_batch ==
    /\ poll.pc = "enqueue"
    /\ caller["poller"].calls = poll.calls
    /\ EnqueueBatch_smismember("poller", poll.msgs)

\* poll_once, lines 168-185: enqueue_batch has returned; without enqueued ids
\* the poll returns, otherwise it enters _batch_mark_as_read
Poll_enqueued ==
    /\ poll.pc = "enqueue"
    /\ caller["poller"].pc = "idle" /\ caller["poller"].calls = poll.calls + 1
    /\ poll' = IF caller["poller"].ret = <<>> THEN PollSuccess(poll)
                                              ELSE [poll EXCEPT !.pc = "mark"]
    /\ UNCHANGED <<cursor, rate, session, caller, api>>
    /\ PollFrame

\* _batch_mark_as_read under api_retry (lines 311-349; api_retry lines 19-56):
\* the reservation was allowed and the POST was sent.  A RequestError is
\* swallowed (line 348); a 429 or 503 raised by raise_for_status is retried
\* until max_retries attempts were made; any other exception of line 346
\* reaches poll_once's except branch
Poll_mark_read(out) ==
    /\ poll.pc = "mark"
    /\ Allowed(PollKey)
    /\ Reserve(PollKey)
    /\ CASE out \in {"ok", "neterr"} ->
                /\ poll' = PollSuccess(poll)
                /\ UNCHANGED session
         [] out = "retry" /\ poll.attempts + 1 < GRAPH_API_MAX_RETRIES ->
                /\ poll' = [poll EXCEPT !.attempts = @ + 1]
                /\ UNCHANGED session
         [] OTHER ->
                /\ poll' = PollError(poll)
                /\ session' = IncrementCounter(session, "polling_errors")
    /\ api' = Called("poller", "reserved")
    /\ UNCHANGED <<cursor, caller>>
    /\ PollFrame

PollStep ==
    \/ Poll_begin
    \/ \E out \in {"ok", "status", "error"} : Poll_get(out)
    \/ Poll_denied
    \/ \E stopped \in BOOLEAN : Poll_wait(stopped)
    \/ Poll_fetched
    \/ Poll_set_cursor
    \/ Poll_enqueue_batch
    \/ EnqueueBatch_zscore("poller")
    \/ EnqueueBatch_insert("poller")
    \/ Poll_enqueued
    \/ \E out \in {"ok", "neterr", "retry", "raise"} : Poll_mark_read(out)

\* ------------------------------------------------------------------ PollSpec
\* Polls against every listing the provider may hold
PollInit == \E m \in Mailboxes : Boot(NoHist, FALSE, 0) /\ Inputs(m, <<>>, <<>>)

PollNext ==
    \/ PollStep
    \/ RateExpire(PollKey)

PollSpec == PollInit /\ [][PollNext]_vars

\* The last poll_once stopped at the page limit with a next-link in hand
StoppedAtLimit == poll.stop = "limit"

\* C12: after a poll_once call has returned, the cursor key is present if and
\* only if that poll stopped at the MAX_POLL_PAGES limit with a next-link
C12_CursorIffLimit ==
    (poll.pc = "idle" /\ poll.ret # "none") => (cursor # None <=> StoppedAtLimit)

\* The last poll_once has returned
PollReturned == poll.pc = "idle" /\ poll.ret # "none"

\* C13: a poll fetches at most MAX_POLL_PAGES pages; a poll that returns with
\* success after the provider offered a next-link on its last, MAX_POLL_PAGES-th
\* page has stored that next-link as the cursor and reports has_more; a poll
\* that found a cursor sends its first request to it, and a poll that reached
\* a page without a next-link leaves no cursor
C13_PageLimitAndResume ==
    /\ poll.pages <= MAX_POLL_PAGES
    /\ (PollReturned /\ poll.ret = "success"
        /\ poll.pages = MAX_POLL_PAGES /\ poll.url # None) =>
            (cursor = poll.url /\ poll.has_more)
    /\ (poll.first # None /\ poll.resume # None) => poll.first = poll.resume
    /\ (poll.first # None /\ poll.resume = None) => poll.first = 1
    /\ (PollReturned /\ poll.stop = "end") => cursor = None

\* ------------------------------------------------------------------ delivery
\* The pool has collected the id's future in the current batch
Handled(id) == pool.fut[id] = "collected"

\* C14: every id that is in the processed set once the worker pool has
\* handled it has been published to the message bus at least once.  (The
\* model's messages are all non-spam; process_email returns True for spam and
\* non-spam alike, lines 52-69.)
C14_ProcessedWasPublished ==
    \A id \in Ids : (id \in processed /\ Handled(id)) => id \in pool.bus

\* C15: the payload of every id the worker pool counts as a success is in the
\* outbound staging list, so when a batch is complete at least as many
\* payloads are staged as the batch had successes (nothing consumes the list
\* in this specification)
C15_SuccessesAreStaged ==
    /\ \A i \in 1..Len(pool.pids) : pool.pids[i] \in Range(outbound)
    /\ bp.pc = "l_stats" => Len(outbound) >= pool.success

\* C16: every call a component makes to the mail provider follows a
\* rate-limit reservation of that component that returned allowed
C16_CallsAreReserved == \A c \in Components : api[c] # "bare"

\* ------------------------------------------------------------------ rate limiter
RateFrame == UNCHANGED <<queueVars, pool, sessionVars, hook, poller, cursor, mail,
                         poll, outbound, retry, send, api, ctlVars, hist>>

\* check_rate_limit, lines 385-393, first command: INCR; the count decides
\* allowed; the first request of a window goes on to set the expiry
Check_incr(c) ==
    /\ limiter.call[c].pc = "idle"
    /\ limiter.call[c].calls < MaxChecks
    /\ LET count == rate[PollKey].n + 1
           first == rate[PollKey].n = 0
           k == IF first THEN 1 ELSE limiter.win + 1
           ok == (IF first THEN 0 ELSE limiter.ok) + (IF WithinLimit(count) THEN 1 ELSE 0)
       IN  /\ rate' = [rate EXCEPT ![PollKey] = Incr(@)]
           /\ limiter' = [limiter EXCEPT
                    !.win = k, !.ok = ok,
                    !.call[c] = [@ EXCEPT !.pc = IF count = 1 THEN "expire" ELSE "idle",
                                          !.count = count, !.k = k,
                                          !.allowed = WithinLimit(count),
                                          !.calls = @ + 1]]
    /\ RateFrame

\* check_rate_limit, lines 388-389: EXPIRE key window, then return
Check_expire(c) ==
    /\ limiter.call[c].pc = "expire"
    /\ rate' = [rate EXCEPT ![PollKey] = Expire(@)]
    /\ limiter' = [limiter EXCEPT !.call[c].pc = "idle"]
    /\ RateFrame

\* ------------------------------------------------------------------ RateSpec
\* Two callers of check_rate_limit on one channel, and the expiry of its key
RateNext ==
    \/ \E c \in RateCallers : Check_incr(c)
    \/ \E c \in RateCallers : Check_expire(c)
    \/ RateExpire(PollKey)

RateSpec == Init /\ [][RateNext]_vars

\* C17: on one channel, the k-th call of a window returns count k and
\* allowed = (k <= limit), whether the calls overlap or not: a denied call is
\* counted like an allowed one, the first call after the key expired returns
\* count 1, and a window allows at most limit calls
C17_KthCallReturnsK ==
    /\ \A c \in RateCallers :
          limiter.call[c].calls > 0 =>
              /\ limiter.call[c].count = limiter.call[c].k
              /\ limiter.call[c].allowed <=>
                    limiter.call[c].k <= GRAPH_API_RATE_LIMIT_THRESHOLD
    /\ limiter.ok <= GRAPH_API_RATE_LIMIT_THRESHOLD

\* In one window a caller was allowed at the limit and the other was then
\* denied with the next count; earlier the key had expired at least once
C17_Witness ==
    /\ \A c \in RateCallers : limiter.call[c].pc = "idle"
    /\ limiter.call["c1"].count = GRAPH_API_RATE_LIMIT_THRESHOLD
    /\ limiter.call["c1"].allowed
    /\ limiter.call["c2"].count = GRAPH_API_RATE_LIMIT_THRESHOLD + 1
    /\ ~limiter.call["c2"].allowed
    /\ limiter.win = GRAPH_API_RATE_LIMIT_THRESHOLD + 1
    /\ limiter.call["c1"].calls + limiter.call["c2"].calls > limiter.win

\* ------------------------------------------------------------------ api_retry
\* What one invocation of the wrapped function may do: return, raise
\* httpx.RequestError, or raise httpx.HTTPStatusError for a response with a
\* status and a Retry-After header (absent, delay-seconds, the HTTP date
\* format of line 32, or a value neither int() nor strptime() accepts)
Returned == Outcome("return", 0, "none")
RequestError == Outcome("RequestError", 0, "none")
StatusError(status, retry_after) == Outcome("HTTPStatusError", status, retry_after)
Outcomes ==
    {Returned, RequestError}
    \cup {StatusError(st, h) : st \in {429, 503}, h \in {"none", "seconds", "date", "bad"}}
    \cup {StatusError(st, "none") : st \in {400, 404, 500}}

IsStatusError(o) == o.kind = "HTTPStatusError"
StatusOf(o) == o.status

\* api_retry, line 24: the statuses the wrapper retries
Retryable(o) == IsStatusError(o) /\ StatusOf(o) \in {429, 503}

\* api_retry, lines 25-38: the delay is computed; a Retry-After value that is
\* neither an int nor a date of the expected format makes strptime raise
\* ValueError inside the handler
DelayFails(o) == o.retry_after = "bad"

RetryFrame == UNCHANGED <<queueVars, pool, sessionVars, hook, poller, pollVars,
                          outbound, limiter, send, api, ctlVars, hist>>

\* The wrapper ends by returning or by raising exc
RetryEnd(r, how, exc) == [r EXCEPT !.pc = "done", !.result = how, !.exc = exc]

\* api_retry, lines 16-18: the wrapper is called
Retry_call ==
    /\ retry.pc = "idle"
    /\ retry.outs # <<>>
    /\ retry' = [retry EXCEPT !.pc = "loop"]
    /\ RetryFrame

\* api_retry, lines 19-52: one pass of the loop: invoke the wrapped function;
\* return its result; on HTTPStatusError 429 / 503 sleep and count a retry;
\* re-raise any other HTTPStatusError and any RequestError
Retry_invoke ==
    /\ retry.pc = "loop"
    /\ retry.retries < GRAPH_API_MAX_RETRIES
    /\ LET o == retry.outs[retry.invoked + 1]
           r == [retry EXCEPT !.invoked = @ + 1]
       IN  retry' =
             CASE o = Returned -> RetryEnd(r, "returned", Nothing)
               [] o = RequestError -> RetryEnd([r EXCEPT !.last = o], "raised", o)
               [] Retryable(o) /\ DelayFails(o) ->
                        RetryEnd([r EXCEPT !.last = o], "raised", Outcome("ValueError", 0, "none"))
               [] Retryable(o) /\ ~DelayFails(o) ->
                        [r EXCEPT !.last = o, !.retries = @ + 1]
               [] OTHER -> RetryEnd([r EXCEPT !.last = o], "raised", o)
    /\ RetryFrame

\* api_retry, lines 53-56: the loop is exhausted; raise the last exception
Retry_exhausted ==
    /\ retry.pc = "loop"
    /\ retry.retries >= GRAPH_API_MAX_RETRIES
    /\ retry' = RetryEnd(retry, "raised",
                         IF retry.last # Nothing THEN retry.last
                                                 ELSE Outcome("RuntimeError", 0, "none"))
    /\ RetryFrame

\* ------------------------------------------------------------------ RetrySpec
\* One call through the decorator for every course the attempts may take
RetryInit ==
    \E outs \in SeqsOf(Outcomes, GRAPH_API_MAX_RETRIES, GRAPH_API_MAX_RETRIES) :
        Boot(NoHist, FALSE, 0) /\ Inputs(EmptyMailbox, outs, <<>>)

RetryNext ==
    \/ Retry_call
    \/ Retry_invoke
    \/ Retry_exhausted

RetrySpec == RetryInit /\ [][RetryNext]_vars

\* The outcome of the i-th invocation
Attempt(i) == retry.outs[i]

\* C18: after an attempt that failed with 429, with 503 or with a network
\* error the wrapped call is made again (as long as attempts remain), and a
\* 4xx status other than 429 is raised to the caller with no further attempt
C18_RetryPolicy ==
    retry.pc = "done" =>
        \A i \in 1..retry.invoked :
            /\ (i < GRAPH_API_MAX_RETRIES
                /\ (Attempt(i) = RequestError
                    \/ (IsStatusError(Attempt(i)) /\ StatusOf(Attempt(i)) \in {429, 503})))
                  => retry.invoked > i
            /\ (IsStatusError(Attempt(i)) /\ StatusOf(Attempt(i)) \in 400..499 \ {429})
                  => (retry.invoked = i /\ retry.result = "raised"
                      /\ retry.exc = Attempt(i))

\* C19: when every attempt fails with 429 or 503 the wrapped function is
\* invoked exactly max_retries times and the exception of the last attempt is
\* raised; when an attempt returns, the wrapper returns after that attempt
C19_ExactlyMaxRetries ==
    retry.pc = "done" =>
        /\ (\A i \in 1..GRAPH_API_MAX_RETRIES :
                IsStatusError(Attempt(i)) /\ StatusOf(Attempt(i)) \in {429, 503})
              => (/\ retry.invoked = GRAPH_API_MAX_RETRIES
                  /\ retry.result = "raised"
                  /\ retry.exc = Attempt(GRAPH_API_MAX_RETRIES))
        /\ (Attempt(retry.invoked) = Returned) => retry.result = "returned"
        /\ retry.result = "returned" => Attempt(retry.invoked) = Returned

\* ------------------------------------------------------------------ outbound forwarder
\* What the persistence API may answer to one POST of the batch
Response(status, retry_after) == Outcome("response", status, retry_after)
Responses ==
    {Response(st, "none") : st \in {200, 202, 400, 401, 403, 404, 429, 500}}
    \cup {Response(429, "date"), RequestError}

SendFrame == UNCHANGED <<queueVars, pool, sessionVars, hook, poller, pollVars,
                         outbound, limiter, retry, api, ctlVars, hist>>

\* _processing_loop, line 119: _send_batch is called with a dequeued batch
Send_call ==
    /\ send.pc = "idle"
    /\ send.resps # <<>>
    /\ send' = [send EXCEPT !.pc = "loop"]
    /\ SendFrame

\* _send_batch, lines 157-186: one pass of the for loop: POST the batch;
\* 202 returns; 400 and 401 break; 429 sleeps Retry-After seconds (int() of a
\* date raises ValueError out of the function); every other status and a
\* RequestError sleep with backoff; then the next attempt
Send_post ==
    /\ send.pc = "loop"
    /\ send.attempt < SEND_MAX_RETRIES
    /\ LET r == send.resps[send.posts + 1]
           s == [send EXCEPT !.posts = @ + 1]
       IN  send' =
             CASE r = RequestError -> [s EXCEPT !.attempt = @ + 1]
               [] r.status = 202 -> [s EXCEPT !.pc = "done"]
               [] r.status \in {400, 401} -> [s EXCEPT !.pc = "done"]
               [] r.status = 429 /\ r.retry_after = "date" ->
                        [s EXCEPT !.pc = "done", !.exc = "ValueError"]
               [] OTHER -> [s EXCEPT !.attempt = @ + 1]
    /\ SendFrame

\* _send_batch, line 188: the attempts are used up
Send_give_up ==
    /\ send.pc = "loop"
    /\ send.attempt >= SEND_MAX_RETRIES
    /\ send' = [send EXCEPT !.pc = "done"]
    /\ SendFrame

\* ------------------------------------------------------------------ SendSpec
\* One batch, for every course the answers of the persistence API may take
SendInit ==
    \E resps \in SeqsOf(Responses, SEND_MAX_RETRIES, SEND_MAX_RETRIES) :
        Boot(NoHist, FALSE, 0) /\ Inputs(EmptyMailbox, <<>>, resps)

SendNext ==
    \/ Send_call
    \/ Send_post
    \/ Send_give_up

SendSpec == SendInit /\ [][SendNext]_vars

\* C20: a batch that the persistence API answers with a 4xx status other
\* than 429 is not posted again: that POST is the last, and if it was the
\* first answer exactly one POST was issued
C20_NoRetryOnClientError ==
    send.pc = "done" =>
        \A i \in 1..send.posts :
            (send.resps[i] # RequestError /\ send.resps[i].status \in 400..499 \ {429})
                => send.posts = i

\* The i-th answer of the persistence API has the given status
Answered(i, status) == send.resps[i] # RequestError /\ send.resps[i].status = status

\* C21: _send_batch issues at most 5 POSTs for a batch and none after a 202;
\* a 429 followed by a 202 makes exactly two POSTs; the batch is never put
\* back on the outbound list
C21_BoundedPosts ==
    /\ send.posts <= SEND_MAX_RETRIES
    /\ outbound = <<>>
    /\ send.pc = "done" =>
          /\ \A i \in 1..send.posts : Answered(i, 202) => send.posts = i
          /\ (Answered(1, 429) /\ Answered(2, 202)) => send.posts = 2

\* ------------------------------------------------------------------ distributed lock
LockFrame == UNCHANGED <<queueVars, pool, sessionVars, hook, poller, pollVars,
                         auxVars, api, fault, orch, lateVars, hist>>

\* acquire_lock, lines 327-349: SET key value NX EX ttl succeeded; the caller
\* enters the critical section (a refused SET changes nothing)
Lock_acquire(c) ==
    /\ lock.call[c].pc = "idle"
    /\ lock.call[c].calls < MaxLocks
    /\ lock.val = "none"
    /\ lock' = [lock EXCEPT !.val = c, !.call[c].pc = "held", !.call[c].calls = @ + 1]
    /\ LockFrame

\* The TTL of the lock key runs out
Lock_expire ==
    /\ lock.val # "none"
    /\ lock' = [lock EXCEPT !.val = "none"]
    /\ LockFrame

\* acquire_lock, line 354: the release begins with GET key
Lock_get(c) ==
    /\ lock.call[c].pc = "held"
    /\ lock' = [lock EXCEPT !.call[c].pc = "release", !.call[c].stored = lock.val]
    /\ LockFrame

\* acquire_lock, lines 355-356: DEL key when the value read was the caller's
Lock_delete(c) ==
    /\ lock.call[c].pc = "release"
    /\ lock' = [lock EXCEPT !.call[c].pc = "idle",
                            !.val = IF lock.call[c].stored = c THEN "none" ELSE @]
    /\ LockFrame

\* ------------------------------------------------------------------ LockSpec
\* Two callers of acquire_lock on one lock name, and the expiry of its key
LockNext ==
    \/ \E c \in LockCallers : Lock_acquire(c)
    \/ Lock_expire
    \/ \E c \in LockCallers : Lock_get(c)
    \/ \E c \in LockCallers : Lock_delete(c)

LockSpec == Init /\ [][LockNext]_vars

\* C22: the last step of a release leaves the key of another holder in place
C22_ReleaseKeepsOthersLock ==
    [][\A c \in LockCallers :
          (lock.call[c].pc = "release" /\ lock'.call[c].pc = "idle"
           /\ lock.val \notin {"none", c}) => lock'.val = lock.val]_vars

\* ------------------------------------------------------------------ store errors
\* The handler caught the connection error of a store command and went on
Swallowed(what) == fault' = fault \cup {what}

\* _atomic_pop, lines 194-206: the EVAL raises; the except branch prints the
\* error and returns [], so dequeue_batch returns [] (lines 136-137)
Dequeue_pop_error(w) ==
    /\ Sched(w)
    /\ consumer[w].pc = "d_pop"
    /\ consumer' = [consumer EXCEPT ![w] = DequeueReturn(w, <<>>)]
    /\ Swallowed("atomic_pop")
    /\ UNCHANGED <<store, now, caller, reclaimer, pool, sessionVars, hook, poller,
                   pollVars, auxVars, api, lock, orch, lateVars>>
    /\ Observe

\* _get_pagination_cursor, lines 99-106: the GET raises; the except branch
\* returns None and poll_once starts from the fresh query
Poll_begin_error ==
    /\ poll.pc = "idle"
    /\ poll.polls < MaxPolls
    /\ poll' = [IdlePoll EXCEPT !.pc = "fetch", !.resume = None, !.url = 1,
                                !.polls = poll.polls + 1]
    /\ Swallowed("cursor_read")
    /\ UNCHANGED <<queueVars, pool, sessionVars, hook, poller, cursor, mail, rate,
                   auxVars, api, lock, orch, lateVars, hist>>

\* _set_pagination_cursor, lines 110-119: the SETEX or DEL raises; the except
\* branch prints the error and poll_once goes on as if the cursor were set
Poll_set_cursor_error ==
    /\ poll.pc = "cursor"
    /\ poll' = IF poll.msgs = <<>>
               THEN [PollSuccess(poll) EXCEPT !.has_more = FALSE]
               ELSE [poll EXCEPT !.pc = "enqueue", !.calls = caller["poller"].calls]
    /\ Swallowed("cursor_write")
    /\ UNCHANGED <<queueVars, pool, sessionVars, hook, poller, cursor, mail, rate,
                   auxVars, api, lock, orch, lateVars, hist>>

\* ------------------------------------------------------------------ FaultSpec
\* The poller and a queue consumer on a store whose commands may fail
FaultNext ==
    \/ PollStep
    \/ Poll_begin_error
    \/ Poll_set_cursor_error
    \/ ClientDequeue("w1", DequeueSize)
    \/ Dequeue_pop("w1")
    \/ Dequeue_get("w1")
    \/ Dequeue_pop_error("w1")

FaultSpec == PollInit /\ [][FaultNext]_vars

\* C23: a store command that fails with a connection error reaches the
\* caller as an exception: neither the atomic pop of dequeue_batch nor a read
\* or write of the pagination cursor is caught and dropped
C23_StoreErrorsSurface == fault = {}

\* ------------------------------------------------------------------ orchestrator
\* EmailIngestionOrchestrator.start_session (main_orchestrator.py, lines 31-178).
\* Its session manager calls are made by the thread "orch" of the session
\* manager section; the orchestrator waits for each call to return.
OrchFrame == UNCHANGED <<queueVars, pool, sessionVars, hook, poller, pollVars,
                         auxVars, api, lock, fault, lateVars, hist>>

OrchFrameButPoller == UNCHANGED <<queueVars, pool, sessionVars, hook, pollVars,
                                   auxVars, api, lock, fault, lateVars, hist>>

\* PollingService.stop, polling_service.py lines 62-74 (called when active)
PollerStop(p) == [p EXCEPT !.active = FALSE]

ErrorStates == {"failed_to_start", "session_error", "error"}
ActiveStates == {"polling_active", "webhook_active", "both_active"}

\* get_session_status()["state"], session_manager.py lines 299-305
StatusState(s) == IF Exists(s) THEN s["state"] ELSE "idle"

\* The branch every state but idle and terminated takes is the termination
BranchTerminate(state) ==
    IF state \in ErrorStates \cup ActiveStates THEN "cleanup" ELSE "start"

\* lines 62-89: recovery for the error states, termination for the active ones
Branch(state) ==
    IF state \in ErrorStates THEN "recover"
    ELSE IF state \in ActiveStates THEN "cleanup"
    ELSE "start"

\* start_session returns r
OrchReturn(o, r) == [o EXCEPT !.pc = "idle", !.ret = r]

\* The session manager call of the orchestrator is op, not yet made / returned
OrchCalls(pc) ==
    /\ orch.pc = pc
    /\ actor["orch"].pc = "idle"
    /\ actor["orch"].op = "none"

OrchCalled(pc, op) ==
    /\ orch.pc = pc
    /\ actor["orch"].pc = "idle"
    /\ actor["orch"].op = op

Forget == actor' = [actor EXCEPT !["orch"] = IdleActor]

\* lines 40-60
Orch_start(webhook, scheduled) ==
    /\ orch.pc = "idle"
    /\ orch.runs < MaxStarts
    /\ LET state == StatusState(session)
           call == [IdleOrch EXCEPT !.running = orch.running, !.was = orch.running,
                                    !.svc = orch.svc, !.runs = orch.runs + 1,
                                    !.webhook = webhook, !.scheduled = scheduled,
                                    !.polls = poll.polls]
       IN  orch' = IF orch.running THEN OrchReturn(call, "False")
                   ELSE [call EXCEPT !.pre = state, !.pc = Branch(state)]
    /\ OrchFrame

\* line 72
Orch_call_recover == OrchCalls("recover") /\ Recover_check("orch")

\* session_manager.py lines 176-178: a store command of the recovery raises,
\* recover_from_error returns False
Recover_raise(a) ==
    /\ \/ At(a, "v_read")
       \/ At(a, "v_save")
       \/ At(a, "v_delete")
    /\ UNCHANGED <<session, history>>
    /\ Leave(a, "False")
    /\ SessionFrame

\* lines 72-77
Orch_recovered ==
    /\ OrchCalled("recover", "recover_from_error")
    /\ orch' = IF actor["orch"].ret = "True"
               THEN [orch EXCEPT !.pc = "start", !.recovers = @ + 1]
               ELSE OrchReturn([orch EXCEPT !.recovers = @ + 1, !.refused = TRUE], "False")
    /\ Forget
    /\ UNCHANGED <<queueVars, pool, session, history, hook, poller, pollVars, auxVars,
                   api, lock, fault, lateVars, hist>>

\* line 85 and _cleanup_previous_session, lines 181-209
Orch_cleanup ==
    /\ orch.pc = "cleanup"
    /\ orch' = [orch EXCEPT !.pc = "terminate", !.svc = {}, !.cleaned = TRUE]
    /\ poller' = PollerStop(poller)
    /\ OrchFrameButPoller

\* line 86
Orch_call_terminate == OrchCalls("terminate") /\ Terminate_read("orch")

\* lines 86-87
Orch_terminated ==
    /\ OrchCalled("terminate", "terminate_session")
    /\ orch' = [orch EXCEPT !.pc = "start", !.terminates = @ + 1]
    /\ Forget
    /\ UNCHANGED <<queueVars, pool, session, history, hook, poller, pollVars, auxVars,
                   api, lock, fault, lateVars, hist>>

\* session_manager.py lines 92 and 101-111: the set_session_state of
\* set_failed_to_start raises as well, before its HSET or after it, and the
\* exception leaves start_session
StartSession_failed_raise(a) ==
    /\ At(a, "s_failed")
    /\ session' \in {session, HSet(session, FailedData(a))}
    /\ Leave(a, "raised")
    /\ UNCHANGED history
    /\ SessionFrame

\* line 116
Orch_call_start == OrchCalls("start") /\ StartSession_read("orch", orch.webhook)

\* lines 116-122; an exception of the call is caught at line 173
Orch_started ==
    /\ OrchCalled("start", "start_session")
    /\ orch' = CASE actor["orch"].ret = "True" ->
                      [orch EXCEPT !.pc = "batch", !.starts = @ + 1, !.running = TRUE]
                 [] actor["orch"].ret = "False" ->
                      OrchReturn([orch EXCEPT !.starts = @ + 1], "False")
                 [] OTHER -> [orch EXCEPT !.pc = "error", !.starts = @ + 1]
    /\ Forget
    /\ UNCHANGED <<queueVars, pool, session, history, hook, poller, pollVars, auxVars,
                   api, lock, fault, lateVars, hist>>

\* lines 124-133: batch_processor.start() returns True, or it returns False or
\* raises (get_token, batch_processor.py line 75) and the except branch is taken
Orch_batch(ok) ==
    /\ orch.pc = "batch"
    /\ orch' = IF ok THEN [orch EXCEPT !.pc = "webhook", !.svc = @ \cup {"batch"}]
               ELSE [orch EXCEPT !.pc = "error"]
    /\ OrchFrame

\* lines 137-145: a webhook that fails to start is only logged
Orch_webhook(ok) ==
    /\ orch.pc = "webhook"
    /\ orch' = [orch EXCEPT !.svc = IF orch.webhook /\ ok THEN @ \cup {"webhook"} ELSE @,
                            !.pc = IF orch.scheduled THEN "poll" ELSE "return"]
    /\ OrchFrame

\* line 150: the initial poll
Orch_poll == orch.pc = "poll" /\ PollStep

\* lines 150-154
Orch_polled ==
    /\ orch.pc = "poll"
    /\ poll.pc = "idle"
    /\ poll.polls > orch.polls
    /\ orch' = [orch EXCEPT !.pc = IF orch.webhook THEN "complete" ELSE "return"]
    /\ OrchFrame

\* line 154
Orch_call_complete == OrchCalls("complete") /\ Complete_read("orch")

Orch_completed ==
    /\ OrchCalled("complete", "complete_initial_polling")
    /\ orch' = [orch EXCEPT !.pc = "return"]
    /\ Forget
    /\ UNCHANGED <<queueVars, pool, session, history, hook, poller, pollVars, auxVars,
                   api, lock, fault, lateVars, hist>>

\* line 171
Orch_return ==
    /\ orch.pc = "return"
    /\ orch' = OrchReturn(orch, "True")
    /\ OrchFrame

\* line 176
Orch_call_error == OrchCalls("error") /\ SetSessionError_call("orch")

\* lines 177-178 and _cleanup, lines 347-363
Orch_failed ==
    /\ OrchCalled("error", "set_session_error")
    /\ orch' = OrchReturn([orch EXCEPT !.svc = {}], "False")
    /\ poller' = PollerStop(poller)
    /\ Forget
    /\ UNCHANGED <<queueVars, pool, session, history, hook, pollVars, auxVars,
                   api, lock, fault, lateVars, hist>>

\* The process ends and a new one creates its orchestrator (line 383); the
\* session record stays in the store
Orch_restart ==
    /\ orch.pc = "idle"
    /\ orch.runs > 0
    /\ orch' = [IdleOrch EXCEPT !.runs = orch.runs]
    /\ poller' = IdlePoller
    /\ loop' = IdleLoop
    /\ UNCHANGED <<queueVars, pool, sessionVars, hook, pollVars, auxVars, api, lock,
                   fault, reg, web, hist>>

\* The termination of a session found active, lines 80-87
OrchTerminateStep ==
    \/ Orch_cleanup
    \/ Orch_call_terminate
    \/ Terminate_state("orch")
    \/ Terminate_end("orch")
    \/ Terminate_reason("orch")
    \/ Terminate_final("orch")
    \/ Terminate_save("orch")
    \/ Orch_terminated

\* The steps of the other session manager calls the orchestrator makes
OrchSessionStep ==
    \/ Recover_read("orch")
    \/ Recover_save("orch")
    \/ Recover_delete("orch")
    \/ Recover_raise("orch")
    \/ StartSession_write("orch")
    \/ StartSession_raise("orch")
    \/ StartSession_failed("orch")
    \/ StartSession_failed_raise("orch")
    \/ Complete_state("orch")
    \/ Complete_ts("orch")
    \/ SetSessionError_state("orch")
    \/ SetSessionError_details("orch")
    \/ SetSessionError_context("orch")
    \/ SetSessionError_ts("orch")

OrchNext ==
    \/ \E webhook, scheduled \in BOOLEAN : Orch_start(webhook, scheduled)
    \/ Orch_call_recover
    \/ Orch_recovered
    \/ OrchTerminateStep
    \/ Orch_call_start
    \/ Orch_started
    \/ \E ok \in BOOLEAN : Orch_batch(ok)
    \/ \E ok \in BOOLEAN : Orch_webhook(ok)
    \/ Orch_poll
    \/ Orch_polled
    \/ Orch_call_complete
    \/ Orch_completed
    \/ Orch_return
    \/ Orch_call_error
    \/ Orch_failed
    \/ Orch_restart
    \/ OrchSessionStep

\* ------------------------------------------------------------------ OrchSpec
\* One process at a time calls start_session on its orchestrator
OrchSpec == Init /\ [][OrchNext]_vars

\* start_session, called on an orchestrator that was not running, is past its
\* recovery or termination and past its session_manager.start_session call
Decided ==
    /\ orch.pre # "none"
    /\ orch.pc \notin {"recover", "cleanup", "terminate", "start"}

\* What start_session does about the session state it found
HandledPrevious ==
    /\ orch.pre \in {"failed_to_start", "session_error"} =>
          orch.recovers = 1 /\ orch.terminates = 0
    /\ orch.pre \in ActiveStates =>
          orch.cleaned /\ orch.svc \subseteq {"batch", "webhook"} /\ orch.terminates = 1
          /\ orch.recovers = 0
    /\ orch.pre \in {"idle", "terminated"} => orch.recovers = 0 /\ orch.terminates = 0

\* C24 as stated: whatever state start_session found, it recovers from the error
\* states, stops the services and terminates the active states, does neither
\* for idle and terminated, and then calls session_manager.start_session
\* exactly once
C24_StartCalledOnceInEachCase ==
    Decided => HandledPrevious /\ orch.starts = 1

\* C24: start_session recovers from failed_to_start and session_error without
\* terminating, stops the services and terminates polling_active,
\* webhook_active and both_active without recovering, does neither for idle and
\* terminated, and then calls session_manager.start_session exactly once,
\* unless the recovery failed, in which case it is not called
C24_RecoverOrTerminateThenStart ==
    Decided => HandledPrevious /\ orch.starts = (IF orch.refused THEN 0 ELSE 1)

C24_Witness ==
    /\ Decided
    /\ orch.pre = "session_error"
    /\ orch.recovers = 1
    /\ orch.starts = 1
    /\ orch.ret = "True"

\* C25: when start_session returns False on an orchestrator that was not
\* running before the call, the orchestrator is not running afterwards
C25_FalseLeavesNotRunning ==
    (orch.pc = "idle" /\ orch.ret = "False" /\ ~orch.was) => ~orch.running

\* start_session has returned to the orchestrator after its write of the new
\* session record failed
WriteFailed ==
    /\ OrchCalled("start", "start_session")
    /\ ~StartRefused(actor["orch"].pre)
    /\ actor["orch"].ret # "True"

\* C26: when the write of the new session record fails inside start_session,
\* the call returns False and the stored state is failed_to_start with a
\* failure reason, never both_active or polling_active
C26_FailedWriteIsFailedToStart ==
    WriteFailed =>
        /\ actor["orch"].ret = "False"
        /\ StateOf(session) = "failed_to_start"
        /\ session["failure_reason"] # Absent

\* Fields that only the end or the failure of a session writes
Leftovers == {"end_time", "termination_reason", "error_details", "fallback_reason"}

\* C27: terminate_session writes end_time and the reason, appends the
\* terminated snapshot to the history and then clears the current session
\* record, so the record of the next started session has no field left over
\* from the previous one
C27_TerminateClearsRecord ==
    /\ OrchCalled("terminate", "terminate_session") =>
          /\ history # <<>>
          /\ StateOf(Head(history)) = "terminated"
          /\ Head(history)["end_time"] # Absent
          /\ Head(history)["termination_reason"] # Absent
          /\ ~Exists(session)
    /\ (OrchCalled("start", "start_session") /\ actor["orch"].ret = "True") =>
          \A f \in Leftovers : session[f] = Absent

\* ------------------------------------------------------------------ registration
\* SessionManager.register_processed_email (session_manager.py, lines 239-249),
\* called by the worker threads; each store command is one step
RegFrame == UNCHANGED <<queue, processing, data, failed, now, caller, consumer,
                        reclaimer, pool, history, actor, hook, poller, pollVars,
                        auxVars, api, lock, fault, orch, web, loop, hist>>

\* A check that never finds the id in the set
IsNewAlways(id, set) == TRUE

\* mark_email_processed, redis_manager.py lines 83-102: SADD returns 1 for a
\* member that was not in the set
IsNew(id, set) == id \notin set

RegReturn(c, id, r) ==
    [reg EXCEPT !.call[c] = [pc |-> "idle", id |-> None, calls |-> @.calls + 1, n |-> 0],
                !.trues[id] = IF r THEN @ + 1 ELSE @,
                !.falses[id] = IF r THEN @ ELSE @ + 1]

\* lines 241-243 and 249
Reg_sadd(c, id) ==
    /\ reg.call[c].pc = "idle"
    /\ reg.call[c].calls < MaxRegs
    /\ MarkEmailProcessed(id)
    /\ reg' = IF IsNew(id, processed)
              THEN [reg EXCEPT !.call[c].pc = "pending", !.call[c].id = id]
              ELSE RegReturn(c, id, FALSE)
    /\ UNCHANGED session
    /\ RegFrame

\* line 244: remove_pending
Reg_pending(c) ==
    /\ reg.call[c].pc = "pending"
    /\ reg' = [reg EXCEPT !.pending = @ \ {reg.call[c].id}, !.call[c].pc = "count"]
    /\ UNCHANGED <<processed, session>>
    /\ RegFrame

\* line 245: HINCRBY session:current processed_count 1
Reg_count(c) ==
    /\ reg.call[c].pc = "count"
    /\ session' = IncrementCounter(session, "processed_count")
    /\ reg' = [reg EXCEPT !.call[c].pc = "metric"]
    /\ UNCHANGED processed
    /\ RegFrame

\* line 246: increment_metric("emails_processed")
Reg_metric(c) ==
    /\ reg.call[c].pc = "metric"
    /\ reg' = [reg EXCEPT !.metric = @ + 1, !.call[c].pc = "total"]
    /\ UNCHANGED <<processed, session>>
    /\ RegFrame

\* lines 247-249: INCR counter:total_processed, return True
Reg_total(c) ==
    /\ reg.call[c].pc = "total"
    /\ reg' = [RegReturn(c, reg.call[c].id, TRUE) EXCEPT !.total = @ + 1]
    /\ UNCHANGED <<processed, session>>
    /\ RegFrame

\* get_session_status()["processed_count"], session_manager.py lines 299-317
ReportedProcessed == IF Exists(session) THEN Cardinality(processed) ELSE 0

\* ------------------------------------------------------------------ RegSpec
\* Two worker threads register processed ids while a session is started
RegNext ==
    \/ \E c \in Registrars, id \in Ids : Reg_sadd(c, id)
    \/ \E c \in Registrars : Reg_pending(c)
    \/ \E c \in Registrars : Reg_count(c)
    \/ \E c \in Registrars : Reg_metric(c)
    \/ \E c \in Registrars : Reg_total(c)
    \/ \E webhook \in BOOLEAN : StartSession_read("api", webhook)
    \/ StartSession_write("api")

RegSpec == Init /\ [][RegNext]_vars

\* Ids for which a register_processed_email call has returned
Registered == {i \in Ids : reg.trues[i] + reg.falses[i] > 0}

NoRegistration == \A c \in Registrars : reg.call[c].pc = "idle"

\* C28: however many register_processed_email calls are made for an id, one
\* after the other or concurrently, exactly one of them returns True; once the
\* calls have returned, the reported processed_count and the lifetime counter
\* total_processed both equal the number of distinct ids registered
C28_RegisteredOnce ==
    /\ \A i \in Ids : reg.trues[i] <= 1
    /\ NoRegistration =>
          /\ \A i \in Registered : reg.trues[i] = 1
          /\ ReportedProcessed = Cardinality(Registered)
          /\ reg.total = Cardinality(Registered)

C28_Witness ==
    /\ NoRegistration
    /\ Registered = Ids
    /\ \E i \in Ids : reg.falses[i] = 2
    /\ reg.total = MaxIds

\* ------------------------------------------------------------------ webhook endpoint
\* webhook_notifications (api/webhook_app.py, lines 27-48)
WebFrame == UNCHANGED <<queueVars, pool, sessionVars, hook, poller, pollVars, auxVars,
                        api, lock, fault, orch, reg, loop, hist>>

\* The endpoint answers the request in progress
Answer(kind, status, counts) ==
    [web EXCEPT !.pc = "idle", !.result = "none",
                !.log = Append(@, [kind |-> kind, body |-> web.body,
                                   healthy |-> web.healthy, status |-> status,
                                   counts |-> counts])]

\* json.dumps of JSONResponse.render: a dict is rendered, a coroutine object
\* raises TypeError
Serializable(result) == result = "dict"

\* lines 34-41. A validation request is answered with its token. Otherwise
\* handle_notification, an async function (webhook_service.py line 143), is
\* called without await: the call returns a coroutine object and the body of
\* the handler does not run. healthy says whether the store and Graph would
\* have answered the handler's calls.
Web_post(token, body, healthy) ==
    /\ web.pc = "idle"
    /\ Len(web.log) < MaxPosts
    /\ web' = IF token
              THEN [web EXCEPT !.log = Append(@, [kind |-> "validation", body |-> <<>>,
                                                  healthy |-> TRUE, status |-> 200,
                                                  counts |-> FALSE])]
              ELSE [web EXCEPT !.pc = "respond", !.body = body, !.healthy = healthy,
                               !.result = "coroutine"]
    /\ WebFrame

\* lines 43-48: JSONResponse(result, 202), or the except branch's 500
Web_respond ==
    /\ web.pc = "respond"
    /\ web' = IF Serializable(web.result) THEN Answer("notification", 202, TRUE)
                                          ELSE Answer("notification", 500, FALSE)
    /\ WebFrame

\* ------------------------------------------------------------------ WebSpec
\* Microsoft Graph posts validation requests and notifications
WebNext ==
    \/ \E token, healthy \in BOOLEAN, body \in SeqsOf(Ids, 0, MaxBatchLen) :
          Web_post(token, body, healthy)
    \/ Web_respond

WebSpec == Init /\ [][WebNext]_vars

\* C29: the endpoint answers a notification with 202 and the enqueued and
\* skipped counts when its handling succeeded, and with 500 when the handling
\* failed and nothing was enqueued
C29_AnswerFollowsHandling ==
    \A i \in 1..Len(web.log) :
        web.log[i].kind = "notification" =>
            IF web.log[i].healthy
            THEN web.log[i].status = 202 /\ web.log[i].counts
            ELSE web.log[i].status = 500

\* ------------------------------------------------------------------ polling loop
\* PollingService.start and _polling_loop (polling_service.py, lines 42-60 and
\* 210-234)
LoopFrame == UNCHANGED <<queueVars, pool, sessionVars, hook, pollVars, auxVars, api,
                         lock, fault, orch, reg, web, hist>>

\* lines 42-60: the service is started and the loop's thread created
Polling_start(mode) ==
    /\ ~poller.active
    /\ loop.pc \in {"none", "ended"}
    /\ poller' = PollerStart(poller, mode)
    /\ loop' = [loop EXCEPT !.pc = "check"]
    /\ LoopFrame

\* lines 214-220: the loop ends when the service was stopped; in any mode but
\* fallback it sleeps for the interval and polls nothing
Loop_check ==
    /\ loop.pc = "check"
    /\ loop' = [loop EXCEPT !.pc = IF ~poller.active THEN "ended"
                                   ELSE IF poller.mode # "fallback" THEN "sleep"
                                   ELSE "poll"]
    /\ UNCHANGED poller
    /\ LoopFrame

\* line 224: poll_once is an async function (line 121) called without await;
\* the call makes a coroutine object that never runs, so nothing is fetched
Loop_poll ==
    /\ loop.pc = "poll"
    /\ loop' = [loop EXCEPT !.pc = "sleep"]
    /\ UNCHANGED poller
    /\ LoopFrame

\* lines 219 and 228: the interval has elapsed (or the stop event was set)
Loop_wake ==
    /\ loop.pc = "sleep"
    /\ loop.waits < MaxWaits
    /\ loop' = [loop EXCEPT !.pc = "check", !.waits = @ + 1]
    /\ UNCHANGED poller
    /\ LoopFrame

LoopStep ==
    \/ Loop_check
    \/ Loop_poll
    \/ Loop_wake

\* The steps of start_session in a process that stays up: it never finds an
\* active session that it is not running itself
OrchRun ==
    \/ Orch_call_recover
    \/ Orch_recovered
    \/ Orch_call_start
    \/ Orch_started
    \/ \E ok \in BOOLEAN : Orch_batch(ok)
    \/ \E ok \in BOOLEAN : Orch_webhook(ok)
    \/ Orch_poll
    \/ Orch_polled
    \/ Orch_call_complete
    \/ Orch_completed
    \/ Orch_return
    \/ Orch_call_error
    \/ Orch_failed
    \/ OrchSessionStep

\* ------------------------------------------------------------------ ScheduledSpec
\* The orchestrator starts sessions and the polling service's loop runs; the
\* threads of the process keep running, the operator's calls need not come
ScheduledNext ==
    \/ \E webhook, scheduled \in BOOLEAN : Orch_start(webhook, scheduled)
    \/ OrchRun
    \/ \E mode \in {"scheduled", "fallback"} : Polling_start(mode)
    \/ LoopStep

ScheduledSpec ==
    /\ Init
    /\ [][ScheduledNext]_vars
    /\ WF_vars(OrchRun)
    /\ WF_vars(LoopStep)

PollingStates == {"polling_active", "both_active"}

\* The initial poll of a session started in scheduled mode is over
PolledOnce ==
    /\ orch.pc = "idle"
    /\ orch.ret = "True"
    /\ orch.scheduled
    /\ poll.pc = "idle"
    /\ poll.polls = 1
    /\ StateOf(session) \in PollingStates

\* C30: in scheduled mode, while the session is polling_active or both_active,
\* a completed poll is followed by another poll once the interval has elapsed,
\* unless the session has been stopped
C30_PollsRecur ==
    PolledOnce ~> (poll.polls > 1 \/ StateOf(session) \notin PollingStates)

\* ------------------------------------------------------------------ worker pool, late
\* C31: a dequeued id that the worker finds in the processed set is treated
\* as processed: when its future is collected it is not counted as a failure
\* and it is not passed to mark_failed (which would dead-letter it)
C31_LateDedupIsNotFailure ==
    [][\A id \in Ids :
          (pool.fut[id] = "false" /\ pool'.fut[id] = "collected" /\ id \in processed)
             => (pool'.failed = pool.failed /\ consumer'["bp"].pc # "f_zrem")]_vars

\* BatchEmailProcessor.stop, lines 97-104: active = False, the stop event is
\* set; the loop's thread is at any point of its iteration
Pool_stop ==
    /\ ~pool.stop
    /\ \E mid \in (IF bp.pc = "l_check" THEN BOOLEAN ELSE {FALSE}) :
          pool' = [pool EXCEPT !.stop = TRUE, !.mid = mid, !.atstop = Members(queue)]
    /\ UNCHANGED consumer
    /\ PoolFrame

\* _processing_loop, lines 126 and 186: the while test finds the stop event
\* set and the loop ends
Pool_exit ==
    /\ bp.pc = "l_check"
    /\ pool.stop
    /\ ~pool.mid
    /\ consumer' = [consumer EXCEPT !["bp"].pc = "l_ended"]
    /\ UNCHANGED pool
    /\ PoolFrame

\* ------------------------------------------------------------------ StopSpec
\* The worker pool of PoolSpec, and a stop() call at any moment
StopNext ==
    \/ ProducerStep("poller")
    \/ PoolStep
    \/ WorkerStep
    \/ Tick
    \/ Pool_stop
    \/ Pool_exit

StopSpec == PoolInit /\ [][StopNext]_vars

\* C32: when stop is signalled while the main queue is not empty, every id
\* that was in the main queue at that moment has been dequeued and handled
\* (processed or dead-lettered) when the processing loop has exited
C32_StopDrainsQueue ==
    bp.pc = "l_ended" =>
        \A id \in pool.atstop : id \notin Members(queue) /\ Settled(id)

\* ZRANGEBYSCORE queue:processing 0 now would return the id
Expired(id) == id \in ZRangeByScore(processing, now)

\* C33: while the worker pool runs, an in-flight id whose visibility deadline
\* has passed eventually leaves the in-flight set (the reclaimer moves it back
\* to the main queue), also when the main queue holds fewer than batch_size ids
C33_ExpiredEventuallyReclaimed ==
    \A id \in Ids : Expired(id) ~> (processing[id] = None)

\* ------------------------------------------------------------------ RestoreSpec
\* The webhook handler, the operators and the polling loop that the fallback
\* starts
RestoreNext ==
    \/ HookStep
    \/ \E a \in Actors : OperatorStep(a)
    \/ LoopStep

RestoreSpec == SeqInit /\ [][RestoreNext]_vars

\* C34: the polling loop invokes poll_once only while the stored session
\* state is both_active or polling_active; after restore_webhook_only has made
\* the session webhook_active the loop invokes no poll
C34_LoopPollsOnlyWhenPolling ==
    [][(loop.pc = "poll" /\ loop'.pc = "sleep") =>
          StateOf(session) \in PollingStates]_vars

\* ------------------------------------------------------------------ HangSpec
\* _process_single_email, lines 256-284, has no time limit of its own: the
\* work of a pool thread (a provider request) blocks and the future never
\* completes; the thread stays taken
Worker_hang(id) ==
    /\ pool.fut[id] = "running"
    /\ pool' = [pool EXCEPT !.fut[id] = "hung"]
    /\ UNCHANGED consumer
    /\ PoolFrame

HangNext ==
    \/ ProducerStep("poller")
    \/ PoolStep
    \/ WorkerStep
    \/ Tick
    \/ \E id \in Ids : Worker_hang(id)

\* The loop thread and the pool threads keep running; a hung worker is the
\* one thing that does not
HangSpec == PoolInit /\ [][HangNext]_vars /\ WF_vars(PoolStep) /\ WF_vars(WorkerStep)

\* C35: a worker that never returns does not block its batch: its id is
\* passed to mark_failed and the collection step of the batch terminates
C35_HungWorkerCountsAsFailure ==
    /\ \A id \in Ids : (pool.fut[id] = "hung") ~> (bp.pc = "f_zrem" /\ bp.fid = id)
    /\ \A id \in Ids : (pool.fut[id] = "hung") ~> (bp.pc = "l_stats")

\* ------------------------------------------------------------------ recover_from_error
\* The states the claim names as the ones recovery is for
InErrorState(s) == Exists(s) /\ StateOf(s) \in {"failed_to_start", "session_error"}

\* This step is the return of a recover_from_error call of actor a
RecoverReturns(a) ==
    /\ actor'[a] # actor[a]
    /\ actor'[a].op = "recover_from_error"
    /\ actor'[a].pc = "idle"

\* C36: recover_from_error returns True only when it was called with the
\* stored state failed_to_start or session_error; the record it deletes is then
\* already the newest entry of the history, and the status reads idle
\* afterwards; when it returns False the record and the history are unchanged
C36_RecoverFrame ==
    [][\A a \in Actors : RecoverReturns(a) =>
          /\ actor'[a].ret = "True" =>
                /\ InErrorState(actor'[a].pre)
                /\ session = actor'[a].pre
                /\ history # <<>> /\ Head(history) = session
                /\ history' = history
                /\ StatusState(session') = "idle"
          /\ ~InErrorState(actor'[a].pre) =>
                /\ actor'[a].ret = "False"
                /\ session' = session
                /\ history' = history]_vars

\* A recovery from session_error has returned True, and one called on an
\* active session has returned False
C36_Witness ==
    /\ actor["api"].op = "recover_from_error" /\ Succeeded("api")
    /\ StateOf(actor["api"].pre) = "session_error"
    /\ session = NoSession /\ Head(history) = actor["api"].pre
    /\ actor["orch"].op = "recover_from_error" /\ actor["orch"].ret = "False"
    /\ StateOf(actor["orch"].pre) = "both_active"

\* ------------------------------------------------------------------ success answers
\* C37: after the persistence API has answered a POST of the batch with a 2xx
\* status, no further POST of the batch is issued
C37_NoPostAfterSuccess ==
    \A i \in 1..send.posts :
        (send.resps[i] # RequestError /\ send.resps[i].status \in 200..299)
            => send.posts = i

\* ------------------------------------------------------------------ acquisition paths
\* C38: whenever the stored session state is webhook_active, the webhook
\* receiver is among the services the orchestrator has started
C38_WebhookActiveHasReceiver ==
    (Exists(session) /\ StateOf(session) = "webhook_active") => "webhook" \in orch.svc

\* ------------------------------------------------------------------ returned ids
\* C39: the list enqueue_batch returns holds each id the call added to the
\* main queue exactly once: its length is the number of ids added
C39_ReturnedAreTheAdded ==
    (hist.who # "none" /\ hist.returned /\ caller[hist.who].op = "enqueue_batch") =>
        LET ret == caller[hist.who].ret
            added == Members(hist.post.queue) \ Members(hist.pre.queue)
        IN  /\ Range(ret) = added
            /\ Len(ret) = Cardinality(added)

\* ------------------------------------------------------------------ pending set
\* register_pending_email (session_manager.py, lines 251-256), called by
\* poll_once for every fetched message after enqueue_batch has returned
\* (polling_service.py lines 181-185) and by the webhook handler for an id
\* enqueue accepted (webhook_service.py lines 186-188); c is the calling thread
Offered ==
    IF caller["poller"].pc # "idle" \/ ~caller["poller"].done THEN {}
    ELSE IF caller["poller"].op = "enqueue_batch" THEN Range(caller["poller"].ids)
    ELSE Range(caller["poller"].ret)

\* line 253: SISMEMBER email:processed
Pend_check(c, id) ==
    /\ reg.call[c].pc = "idle"
    /\ reg.call[c].calls < MaxRegs
    /\ id \in Offered
    /\ reg' = IF id \in processed
              THEN [reg EXCEPT !.call[c].calls = @ + 1]
              ELSE [reg EXCEPT !.call[c].pc = "p_add", !.call[c].id = id]
    /\ UNCHANGED <<processed, session>>
    /\ RegFrame

\* line 254: ZADD email:pending
Pend_add(c) ==
    /\ reg.call[c].pc = "p_add"
    /\ reg' = [reg EXCEPT !.pending = @ \cup {reg.call[c].id}, !.call[c].pc = "p_card"]
    /\ UNCHANGED <<processed, session>>
    /\ RegFrame

\* line 255: ZCARD email:pending
Pend_card(c) ==
    /\ reg.call[c].pc = "p_card"
    /\ reg' = [reg EXCEPT !.call[c].n = Cardinality(reg.pending), !.call[c].pc = "p_hset"]
    /\ UNCHANGED <<processed, session>>
    /\ RegFrame

\* line 256: HSET session:current pending_count
Pend_hset(c) ==
    /\ reg.call[c].pc = "p_hset"
    /\ session' = UpdateField(session, "pending_count", ToStr(reg.call[c].n))
    /\ reg' = [reg EXCEPT !.call[c] = [pc |-> "idle", id |-> None,
                                       calls |-> @.calls + 1, n |-> 0]]
    /\ UNCHANGED processed
    /\ RegFrame

\* process_email, lines 48-62, and register_processed_email, lines 241-243: the
\* provider is called, the work succeeds, SADD email:processed; a new member
\* goes on to remove_pending
Worker_register(id) ==
    /\ pool.fut[id] = "running"
    /\ MarkEmailProcessed(id)
    /\ pool' = [pool EXCEPT !.fut[id] = IF IsNew(id, processed) THEN "unpend" ELSE "true"]
    /\ api' = Called("worker", "bare")
    /\ UNCHANGED <<queue, processing, data, failed, now, caller, consumer, reclaimer,
                   sessionVars, hook, poller, pollVars, auxVars, ctlVars, hist>>

\* register_processed_email, line 244: ZREM email:pending
Worker_unpend(id) ==
    /\ pool.fut[id] = "unpend"
    /\ reg' = [reg EXCEPT !.pending = @ \ {id}]
    /\ pool' = [pool EXCEPT !.fut[id] = "count"]
    /\ UNCHANGED <<store, now, caller, consumer, reclaimer, sessionVars, hook, poller,
                   pollVars, auxVars, api, lock, fault, orch, web, loop, hist>>

\* register_processed_email, lines 245-249: HINCRBY processed_count, the
\* metric and the lifetime counter; process_email returns True
Worker_counters(id) ==
    /\ pool.fut[id] = "count"
    /\ session' = IncrementCounter(session, "processed_count")
    /\ reg' = [reg EXCEPT !.metric = @ + 1, !.total = @ + 1]
    /\ pool' = [pool EXCEPT !.fut[id] = "true"]
    /\ UNCHANGED <<store, now, caller, consumer, reclaimer, history, actor, hook, poller,
                   pollVars, auxVars, api, lock, fault, orch, web, loop, hist>>

\* ------------------------------------------------------------------ PendingSpec
\* The worker pool and a polling thread that registers what it offered to
\* enqueue_batch as pending
PendingNext ==
    \/ \E ids \in SeqsOf(Ids, 1, MaxBatchLen) : EnqueueBatch_smismember("poller", ids)
    \/ EnqueueBatch_zscore("poller")
    \/ EnqueueBatch_insert("poller")
    \/ \E id \in Ids : Pend_check("r1", id)
    \/ Pend_add("r1")
    \/ Pend_card("r1")
    \/ Pend_hset("r1")
    \/ Pool_check
    \/ Pool_sleep
    \/ Dequeue_pop("bp")
    \/ Dequeue_get("bp")
    \/ Pool_submit
    \/ \E id \in Ids : \E published \in BOOLEAN : Pool_collect_ok(id, published)
    \/ \E id \in Ids : Pool_collect_failed(id)
    \/ MarkFailed_zrem("bp")
    \/ MarkFailed_zadd("bp")
    \/ Pool_mark
    \/ MarkProcessed("bp")
    \/ Pool_stats
    \/ \E id \in Ids : Worker_begin(id)
    \/ \E id \in Ids : Worker_register(id)
    \/ \E id \in Ids : Worker_unpend(id)
    \/ \E id \in Ids : Worker_counters(id)
    \/ \E id \in Ids : Worker_fail(id)

\* A started processor that has counted no batch: the reclaim of every
\* RECLAIM_EVERY batches is not reached
PendingSpec == Start(NoHist, TRUE, 0) /\ [][PendingNext]_vars

\* The id is in the main queue or in flight, or mark_failed is between its two
\* commands for it
AwaitsProcessing(id) ==
    \/ id \in Members(queue) \cup Members(processing)
    \/ bp.pc = "f_zadd" /\ bp.fid = id

\* C40: every id in the pending set still awaits processing: an id that was
\* registered as processed or dead-lettered, and is neither queued nor in
\* flight, is not in the pending set
C40_PendingAwaitProcessing ==
    \A id \in reg.pending : AwaitsProcessing(id)

====
